---- MODULE Spec2Model ----
(***************************************************************************)
(* Evidence-grounding pipeline of agentos-docker: evidence extraction      *)
(* (shared/evidence.py), section analysis (agents/content_analyzer.py),    *)
(* the revision pass and the slide-budget pass (agents/revisor.py), the    *)
(* slot filter (agents/controller.py), the smart_discover entry point      *)
(* with its slide generator (teams/smart_discovery.py), the config parser  *)
(* (shared/config_loader.py) and the section-by-section orchestrator       *)
(* (teams/discovery_orchestrator.py, shared/state.py).                     *)
(*                                                                         *)
(* Specifications: Spec (a call of smart_discover or of its passes),       *)
(* SpecExtract (the extractor called twice), SpecCollections (add, merge   *)
(* and the slot filter on two collections), SpecSearch (add and search on  *)
(* one collection), SpecTerminology (apply_terminology applied to its own  *)
(* result), SpecConfig (the config parser on one page) and                 *)
(* SpecOrchestrator (commands applied to one report state).                *)
(*                                                                         *)
(* Strings are modelled as sequences: a name, a bullet text or an open     *)
(* question is a sequence of words; a raw line of the extractor and a      *)
(* user message of the orchestrator are sequences of characters.           *)
(***************************************************************************)
EXTENDS Integers, Sequences, FiniteSets, TLC

(***************************************************************************)
(* Bounds of the model                                                     *)
(***************************************************************************)
\* longest bullet list of a hand-written candidate section
MaxBullets == 2
\* largest per_section_max of the enumerated slide budgets
MaxPsm == 2
\* number of sections of the generated (long) section lists
MaxSections == 2
\* number of lines of the raw text handed to the extractor
MaxLines == 3

(***************************************************************************)
(* Text helpers                                                            *)
(***************************************************************************)
Range(s) == {s[i] : i \in 1..Len(s)}

Min(a, b) == IF a <= b THEN a ELSE b

Max(a, b) == IF a >= b THEN a ELSE b

\* python s[:n] for any integer n
Take(s, n) ==
  IF n >= 0 THEN SubSeq(s, 1, Min(n, Len(s)))
  ELSE SubSeq(s, 1, Max(0, Len(s) + n))

\* python s[n:] for n >= 0
Drop(s, n) == SubSeq(s, Min(n, Len(s)) + 1, Len(s))

\* str.lower() of one word
LowerWord(w) ==
  CASE w = "Key" -> "key"
    [] w = "Findings" -> "findings"
    [] w = "Insights" -> "insights"
    [] w = "Recommendations" -> "recommendations"
    [] w = "Executive" -> "executive"
    [] w = "Summary" -> "summary"
    [] w = "Risks" -> "risks"
    [] OTHER -> w

\* str.lower() of a text
Lower(t) == [i \in 1..Len(t) |-> LowerWord(t[i])]

\* python "a in b" for strings, on whole words
ContainsText(b, a) ==
  \E i \in 0..(Len(b) - Len(a)) : SubSeq(b, i + 1, i + Len(a)) = a


(***************************************************************************)
(* shared/evidence.py: CustomerConfig                                      *)
(***************************************************************************)
\* variant: only the first match is replaced (count=1)
re_sub_first_only(old, new, text) ==
  LET at == {i \in 0..(Len(text) - Len(old)) :
               Lower(SubSeq(text, i + 1, i + Len(old))) = Lower(old)}
  IN  IF at = {} THEN text
      ELSE LET i == CHOOSE i \in at : \A j \in at : i <= j
           IN  SubSeq(text, 1, i) \o new \o SubSeq(text, i + Len(old) + 1, Len(text))

\* re.sub(rf'\b{old}\b', new, text, flags=re.IGNORECASE): leftmost,
\* non-overlapping whole-word matches of old are replaced by new
RECURSIVE re_sub(_, _, _)
re_sub(old, new, text) ==
  IF Len(text) < Len(old) THEN text
  ELSE IF Lower(SubSeq(text, 1, Len(old))) = Lower(old)
       THEN new \o re_sub(old, new, Drop(text, Len(old)))
       ELSE <<Head(text)>> \o re_sub(old, new, Tail(text))

\* the mapping is a sequence of <<old_term, new_term>> in insertion order
RECURSIVE apply_terminology(_, _)
apply_terminology(terminology_map, text) ==
  IF terminology_map = <<>> THEN text
  ELSE apply_terminology(Tail(terminology_map),
         re_sub(Head(terminology_map)[1], Head(terminology_map)[2], text))

validate_sections(must_include, names) ==
  SelectSeq(must_include,
    LAMBDA concept : ~ \E i \in 1..Len(names) :
                         ContainsText(Lower(names[i]), Lower(concept)))

get_max_slides(config) == config.slide_budget.max

get_min_slides(config) == config.slide_budget.min

get_per_section_max(config) == config.slide_budget.per_section_max

(***************************************************************************)
(* shared/evidence.py: EvidenceCollection, GroundedBullet, GroundedSection *)
(***************************************************************************)
\* EvidenceCollection.get(id) is not None; the collection of the pipeline
\* is the sequence of its items in insertion order
Resolves(evidence, eid) == \E i \in 1..Len(evidence) : evidence[i].id = eid

GroundedBullet(text, evidence_ids) ==
  [text |-> text, evidence_ids |-> evidence_ids]

GroundedSection(name, description) ==
  [name |-> name, description |-> description, bullets |-> <<>>,
   evidence_ids |-> <<>>, open_questions |-> <<>>,
   has_sufficient_evidence |-> TRUE]

add_bullet(section, text, evidence_ids) ==
  [section EXCEPT !.bullets = Append(@, GroundedBullet(text, evidence_ids)),
                  !.evidence_ids = @ \o evidence_ids]

\* variant: the question is appended and the flag is left alone
add_open_question_keeps_flag(section, question) ==
  [section EXCEPT !.open_questions = Append(@, question)]

add_open_question(section, question) ==
  [section EXCEPT !.open_questions = Append(@, question),
                  !.has_sufficient_evidence = FALSE]

is_grounded(bullet) == Len(bullet.evidence_ids) > 0

\* f"Needs evidence: {text}"
NeedsEvidence(text) == <<"Needs", "evidence:">> \o text

\* f"No evidence found for {name}"
NoEvidenceFound(name) == <<"No", "evidence", "found", "for">> \o name

(***************************************************************************)
(* agents/revisor.py: the revision pass                                    *)
(***************************************************************************)
valid_ids(evidence, bullet) ==
  SelectSeq(bullet.evidence_ids, LAMBDA eid : Resolves(evidence, eid))

\* variant: the kept bullets keep their whole id list
valid_bullets_unrestricted(evidence, bullets) ==
  SelectSeq(bullets, LAMBDA b : valid_ids(evidence, b) # <<>>)

valid_bullets(evidence, bullets) ==
  LET kept == SelectSeq(bullets, LAMBDA b : valid_ids(evidence, b) # <<>>)
  IN  [i \in 1..Len(kept) |->
         [kept[i] EXCEPT !.evidence_ids = valid_ids(evidence, kept[i])]]

removed_bullets(evidence, bullets) ==
  SelectSeq(bullets, LAMBDA b : valid_ids(evidence, b) = <<>>)

\* variant: removed bullets leave no open question
AddRemovedAsQuestions_none(section, removed) == section

\* revisor.py 207-212: one open question per removed bullet, unless the
\* same question is already in the list
RECURSIVE AddRemovedAsQuestions(_, _)
AddRemovedAsQuestions(section, removed) ==
  IF removed = <<>> THEN section
  ELSE LET question == NeedsEvidence(Head(removed).text)
       IN  AddRemovedAsQuestions(
             IF question \in Range(section.open_questions) THEN section
             ELSE add_open_question(section, question),
             Tail(removed))

\* revisor.py 214-218
AddPlaceholderQuestion(section) ==
  IF section.bullets = <<>> /\ section.open_questions = <<>>
  THEN add_open_question(section, NoEvidenceFound(section.name))
  ELSE section

\* revisor.py 220-231
ApplyTerminologyFixes(section, config) ==
  IF config.terminology_map # <<>>
  THEN [section EXCEPT
          !.name = apply_terminology(config.terminology_map, @),
          !.bullets = [i \in 1..Len(@) |->
             [@[i] EXCEPT !.text = apply_terminology(config.terminology_map, @)]]]
  ELSE section

_revise_section(section, evidence, config) ==
  LET filtered == [section EXCEPT !.bullets = valid_bullets(evidence, @)]
      questioned == AddRemovedAsQuestions(filtered,
                      removed_bullets(evidence, section.bullets))
  IN  ApplyTerminologyFixes(AddPlaceholderQuestion(questioned), config)

revise_sections(sections, evidence, config) ==
  [i \in 1..Len(sections) |-> _revise_section(sections[i], evidence, config)]

(***************************************************************************)
(* agents/revisor.py: the slide budget                                     *)
(***************************************************************************)
BulletsPerSlide == 6

FixedSlides == 2

\* variant: open questions are not counted
SectionSlides_bullets_only(section, per_section_max) ==
  LET bullet_count == Len(section.bullets)
      content_slides == Max(1, (bullet_count + 5) \div BulletsPerSlide)
  IN  1 + (IF content_slides > per_section_max THEN per_section_max
           ELSE content_slides)

\* variant: floor instead of ceiling
SectionSlides_floor(section, per_section_max) ==
  LET bullet_count == Len(section.bullets) + Len(section.open_questions)
      content_slides == Max(1, bullet_count \div BulletsPerSlide)
  IN  1 + (IF content_slides > per_section_max THEN per_section_max
           ELSE content_slides)

\* revisor.py 255-269: slides of one section, divider included
SectionSlides(section, per_section_max) ==
  LET bullet_count == Len(section.bullets) + Len(section.open_questions)
      content_slides == Max(1, (bullet_count + 5) \div BulletsPerSlide)
  IN  1 + (IF content_slides > per_section_max THEN per_section_max
           ELSE content_slides)

RECURSIVE SumSlides(_, _)
SumSlides(sections, per_section_max) ==
  IF sections = <<>> THEN 0
  ELSE SectionSlides(Head(sections), per_section_max)
       + SumSlides(Tail(sections), per_section_max)

_check_slide_budget(sections, config) ==
  LET estimated == FixedSlides + SumSlides(sections, get_per_section_max(config))
  IN  [valid |-> ~ (estimated < get_min_slides(config))
                 /\ ~ (estimated > get_max_slides(config)),
       estimated_slides |-> estimated]

\* variant: the sections are taken in the order given
SortedByBullets_unsorted(sections, todo) ==
  [k \in 1..Cardinality(todo) |-> k]

\* sorted(range(n), key=len(bullets), reverse=True): the stable order of
\* the section indexes, longest bullet list first
RECURSIVE SortedByBullets(_, _)
SortedByBullets(sections, todo) ==
  IF todo = {} THEN <<>>
  ELSE LET first == CHOOSE i \in todo : \A j \in todo :
                      \/ Len(sections[i].bullets) > Len(sections[j].bullets)
                      \/ /\ Len(sections[i].bullets) = Len(sections[j].bullets)
                         /\ i <= j
       IN  <<first>> \o SortedByBullets(sections, todo \ {first})

\* variant: the bullets cut off are kept as open questions
Truncate_to_questions(section, max_bullets) ==
  [section EXCEPT
     !.bullets = Take(@, max_bullets),
     !.open_questions = @ \o [j \in 1..(Len(section.bullets) - max_bullets) |->
                                section.bullets[max_bullets + j].text]]

\* variant: one bullet is kept
Truncate_to_one(section, max_bullets) ==
  [section EXCEPT !.bullets = Take(@, 1)]

\* revisor.py 328: section.bullets = section.bullets[:max_bullets]
Truncate(section, max_bullets) ==
  [section EXCEPT !.bullets = Take(@, max_bullets)]

\* variant: every section longer than the cap is cut, whatever the counter
TrimLoop_unconditional(sections, order, slides_to_remove, per_section_max) ==
  [i \in 1..Len(sections) |->
     IF Len(sections[i].bullets) > per_section_max * BulletsPerSlide
     THEN Truncate(sections[i], per_section_max * BulletsPerSlide)
     ELSE sections[i]]

\* revisor.py 319-330: the trimming loop over the sorted sections
RECURSIVE TrimLoop(_, _, _, _)
TrimLoop(sections, order, slides_to_remove, per_section_max) ==
  IF order = <<>> \/ slides_to_remove <= 0 THEN sections
  ELSE LET i == Head(order)
           max_bullets == per_section_max * BulletsPerSlide
           removed == Len(sections[i].bullets) - max_bullets
       IN  IF Len(sections[i].bullets) > max_bullets
           THEN TrimLoop([sections EXCEPT ![i] = Truncate(@, max_bullets)],
                         Tail(order),
                         slides_to_remove - (removed \div BulletsPerSlide),
                         per_section_max)
           ELSE TrimLoop(sections, Tail(order), slides_to_remove,
                         per_section_max)

\* variant: slides_to_remove computed as max_slides - estimated
enforce_slide_budget_reversed(sections, config) ==
  LET budget == _check_slide_budget(sections, config)
  IN  IF budget.valid THEN sections
      ELSE TrimLoop(sections,
                    SortedByBullets(sections, 1..Len(sections)),
                    get_max_slides(config) - budget.estimated_slides,
                    get_per_section_max(config))

enforce_slide_budget(sections, config) ==
  LET budget == _check_slide_budget(sections, config)
  IN  IF budget.valid THEN sections
      ELSE TrimLoop(sections,
                    SortedByBullets(sections, 1..Len(sections)),
                    budget.estimated_slides - get_max_slides(config),
                    get_per_section_max(config))

(***************************************************************************)
(* shared/evidence.py: EvidenceItem and extract_evidence_from_content.     *)
(* Raw text, lines, titles and quotes are sequences of characters.         *)
(***************************************************************************)
QuoteCut == 100

MinTextLen == 5

Whitespace == {" ", "\t"}

StartsWith(s, prefix) ==
  Len(s) >= Len(prefix) /\ SubSeq(s, 1, Len(prefix)) = prefix

\* str.strip()
RECURSIVE LStrip(_)
LStrip(s) ==
  IF s # <<>> /\ Head(s) \in Whitespace THEN LStrip(Tail(s)) ELSE s

RECURSIVE RStrip(_)
RStrip(s) ==
  IF s # <<>> /\ s[Len(s)] \in Whitespace
  THEN RStrip(SubSeq(s, 1, Len(s) - 1)) ELSE s

Strip(s) == RStrip(LStrip(s))

\* content.split('\n')
RECURSIVE Split(_)
Split(content) ==
  IF \A i \in 1..Len(content) : content[i] # "\n" THEN <<content>>
  ELSE LET i == CHOOSE i \in 1..Len(content) :
                  /\ content[i] = "\n"
                  /\ \A j \in 1..(i - 1) : content[j] # "\n"
       IN  <<SubSeq(content, 1, i - 1)>>
           \o Split(SubSeq(content, i + 1, Len(content)))

\* hashlib.md5(f"{page_id}:{quote[:100]}").hexdigest()[:8]: the digest is
\* taken to be free of collisions, it stands for the string it hashes
Md5(page_id, quote) == page_id \o <<":">> \o Take(quote, QuoteCut)

MakeId(page_id, quote) == [prefix |-> "EVID-", hash |-> Md5(page_id, quote)]

\* variant: the id is drawn from the time of creation as well
EvidenceItem_timed(page_id, block_path, quote, text, block_type, now) ==
  [id |-> [prefix |-> "EVID-", hash |-> <<now>>],
   page_id |-> page_id, block_path |-> block_path, quote |-> quote,
   text |-> text, block_type |-> block_type, extracted_at |-> now]

\* EvidenceItem(...) of a non-empty quote, created at time now
EvidenceItem(page_id, block_path, quote, text, block_type, now) ==
  [id |-> MakeId(page_id, quote),
   page_id |-> page_id, block_path |-> block_path, quote |-> quote,
   text |-> text, block_type |-> block_type, extracted_at |-> now]

\* EvidenceCollection.add: items is a dict, a known id keeps its position
\* and takes the new item
add(items, item) ==
  IF \E i \in 1..Len(items) : items[i].id = item.id
  THEN [i \in 1..Len(items) |->
          IF items[i].id = item.id THEN item ELSE items[i]]
  ELSE Append(items, item)

\* the character of a code fence
Backtick == "BACKTICK"

Digits == {"1", "2", "3", "4", "5", "6", "7", "8", "9"}

IsNumbered(line) ==
  Len(line) >= 3 /\ line[1] \in Digits /\ line[2] = "." /\ line[3] = " "

\* variant: an H2 title is appended to the whole path
PathAfter_untruncated(line, current_path) ==
  IF StartsWith(line, <<"#", " ">>) THEN <<Strip(Drop(line, 2))>>
  ELSE IF StartsWith(line, <<"#", "#", " ">>)
  THEN current_path \o <<Strip(Drop(line, 3))>>
  ELSE IF StartsWith(line, <<"#", "#", "#", " ">>)
  THEN Take(current_path, 2) \o <<Strip(Drop(line, 4))>>
  ELSE current_path

\* evidence.py 293-304: the heading path after a stripped, non-empty line
PathAfter(line, current_path) ==
  IF StartsWith(line, <<"#", " ">>) THEN <<Strip(Drop(line, 2))>>
  ELSE IF StartsWith(line, <<"#", "#", " ">>)
  THEN Take(current_path, 1) \o <<Strip(Drop(line, 3))>>
  ELSE IF StartsWith(line, <<"#", "#", "#", " ">>)
  THEN Take(current_path, 2) \o <<Strip(Drop(line, 4))>>
  ELSE current_path

\* evidence.py 293-319: block type and text of a stripped, non-empty line
Block(line) ==
  IF StartsWith(line, <<"#", " ">>)
  THEN [block_type |-> "heading", text |-> Strip(Drop(line, 2))]
  ELSE IF StartsWith(line, <<"#", "#", " ">>)
  THEN [block_type |-> "heading", text |-> Strip(Drop(line, 3))]
  ELSE IF StartsWith(line, <<"#", "#", "#", " ">>)
  THEN [block_type |-> "heading", text |-> Strip(Drop(line, 4))]
  ELSE IF StartsWith(line, <<"-", " ">>) \/ StartsWith(line, <<"*", " ">>)
  THEN [block_type |-> "bullet", text |-> Strip(Drop(line, 2))]
  ELSE IF IsNumbered(line)
  THEN [block_type |-> "numbered", text |-> Strip(Drop(line, 3))]
  ELSE IF StartsWith(line, <<Backtick, Backtick, Backtick>>)
  THEN [block_type |-> "code", text |-> line]
  ELSE IF StartsWith(line, <<">">>)
  THEN [block_type |-> "quote", text |-> Strip(Drop(line, 1))]
  ELSE [block_type |-> "paragraph", text |-> line]

\* variant: a text of exactly 5 characters is skipped too
TooShort_inclusive(text) == Len(text) <= MinTextLen

\* evidence.py 322
TooShort(text) == Len(text) < MinTextLen

(***************************************************************************)
(* shared/evidence.py: EvidenceCollection with its keys.  The items        *)
(* mapping is the sequence of its entries [key, value] in insertion order  *)
(* (a python dict); the texts of this part are sequences of words.         *)
(***************************************************************************)
\* items[k] = v
DictSet(d, k, v) ==
  IF \E i \in 1..Len(d) : d[i].key = k
  THEN [d EXCEPT ![CHOOSE i \in 1..Len(d) : d[i].key = k].value = v]
  ELSE Append(d, [key |-> k, value |-> v])

\* items.update(other): the entries of other are set in their order (the
\* loop is unfolded by halves)
RECURSIVE DictUpdate(_, _)
DictUpdate(d, other) ==
  IF other = <<>> THEN d
  ELSE IF Len(other) = 1 THEN DictSet(d, other[1].key, other[1].value)
  ELSE LET half == Len(other) \div 2
           first == DictUpdate(d, SubSeq(other, 1, half))
       IN  IF Len(first) >= 0
           THEN DictUpdate(first, SubSeq(other, half + 1, Len(other)))
           ELSE first

DictKeys(d) == {d[i].key : i \in 1..Len(d)}

DictGet(d, k) == d[CHOOSE i \in 1..Len(d) : d[i].key = k].value

\* list(items.values())
DictValues(d) == [i \in 1..Len(d) |-> d[i].value]

\* the empty id ""
NoId == [prefix |-> "", hash |-> <<>>]

\* EvidenceItem(id=..., page_id=..., quote=..., text=...): evidence.py 32-39,
\* an id is generated when none is given and the quote is not empty
NewEvidenceItem(id, page_id, quote, text) ==
  [id |-> IF id = NoId /\ quote # <<>> THEN MakeId(page_id, quote) ELSE id,
   page_id |-> page_id, quote |-> quote, text |-> text]

\* variant: the item is stored under the id it had when it was handed in
EvidenceCollection_add_stale_key(items, item) ==
  DictSet(items, item.id,
          IF item.id = NoId
          THEN [item EXCEPT !.id = MakeId(item.page_id, item.quote)]
          ELSE item)

\* EvidenceCollection.add, evidence.py 59-68
EvidenceCollection_add(items, item) ==
  LET stored == IF item.id = NoId
                THEN [item EXCEPT !.id = MakeId(item.page_id, item.quote)]
                ELSE item
  IN  DictSet(items, stored.id, stored)

\* EvidenceCollection.merge, evidence.py 92-94
EvidenceCollection_merge(items, other) == DictUpdate(items, other)

\* EvidenceCollection.search, evidence.py 78-85
EvidenceCollection_search(items, keywords) ==
  SelectSeq(DictValues(items),
    LAMBDA item : \E k \in 1..Len(keywords) :
       ContainsText(Lower(item.text \o item.quote), Lower(keywords[k])))

(***************************************************************************)
(* agents/controller.py: the evidence handed to one slot                   *)
(***************************************************************************)
_MIN_RELEVANT == 5

_MAX_RELEVANT == 120

\* controller.py 125-126 and 135-136: items[item.id] = item for each item,
\* in their order (the loop is unfolded by halves)
RECURSIVE KeyedById(_, _)
KeyedById(d, found) ==
  IF found = <<>> THEN d
  ELSE IF Len(found) = 1 THEN DictSet(d, found[1].id, found[1])
  ELSE LET half == Len(found) \div 2
           first == KeyedById(d, SubSeq(found, 1, half))
       IN  IF Len(first) >= 0
           THEN KeyedById(first, SubSeq(found, half + 1, Len(found)))
           ELSE first

_cap(evidence_items) ==
  IF Len(evidence_items) <= _MAX_RELEVANT THEN evidence_items
  ELSE KeyedById(<<>>, Take(DictValues(evidence_items), _MAX_RELEVANT))

_filter_evidence(slot, evidence_items) ==
  IF slot.evidence_keywords = <<>> \/ Len(evidence_items) <= _MIN_RELEVANT
  THEN _cap(evidence_items)
  ELSE LET matches == EvidenceCollection_search(evidence_items,
                                                slot.evidence_keywords)
       IN  IF Len(matches) < _MIN_RELEVANT THEN _cap(evidence_items)
           ELSE KeyedById(<<>>, Take(matches, _MAX_RELEVANT))

(***************************************************************************)
(* agents/content_analyzer.py: section analysis                            *)
(***************************************************************************)
\* content_analyzer.py 176-199: one section of the parsed response
RECURSIVE AddKeyPoints(_, _, _)
AddKeyPoints(section, key_points, evidence) ==
  IF key_points = <<>> THEN section
  ELSE LET kp == Head(key_points)
           ids == valid_ids(evidence, kp)
       IN  AddKeyPoints(
             IF ids # <<>> THEN add_bullet(section, kp.text, ids)
             ELSE add_open_question(section, NeedsEvidence(kp.text)),
             Tail(key_points), evidence)

RECURSIVE AddQuestions(_, _)
AddQuestions(section, questions) ==
  IF questions = <<>> THEN section
  ELSE AddQuestions(add_open_question(section, Head(questions)),
                    Tail(questions))

ParsedSection(section_data, evidence) ==
  AddQuestions(
    AddKeyPoints(GroundedSection(section_data.name, section_data.description),
                 section_data.key_points, evidence),
    section_data.open_questions)

\* content_analyzer.py 234-242
Placeholder(concept) ==
  add_open_question(
    [GroundedSection(concept, <<"Section", "for">> \o concept)
       EXCEPT !.has_sufficient_evidence = FALSE],
    NoEvidenceFound(concept))

_apply_customer_constraints(sections, config) ==
  LET names == [i \in 1..Len(sections) |-> sections[i].name]
      missing == validate_sections(config.must_include, names)
      all == sections \o [i \in 1..Len(missing) |-> Placeholder(missing[i])]
  IN  [i \in 1..Len(all) |->
        [all[i] EXCEPT
          !.name = apply_terminology(config.terminology_map, @),
          !.description = apply_terminology(config.terminology_map, @),
          !.bullets = [j \in 1..Len(@) |->
             [@[j] EXCEPT !.text = apply_terminology(config.terminology_map, @)]]]]

FallbackLimit == 10

\* the evidence texts of the pipeline model are shorter than 100 characters,
\* so that item.text[:100] is the text
RECURSIVE AddEvidenceBullets(_, _)
AddEvidenceBullets(section, items) ==
  IF items = <<>> THEN section
  ELSE AddEvidenceBullets(
         add_bullet(section, Head(items).text, <<Head(items).id>>),
         Tail(items))

\* variant: the fallback is the findings section alone
_create_fallback_sections_findings_only(evidence) ==
  LET findings == AddEvidenceBullets(
                    GroundedSection(<<"Key", "Findings">>,
                      <<"Extracted", "findings", "from", "source", "content">>),
                    Take(evidence, FallbackLimit))
  IN  <<findings>>

_create_fallback_sections(evidence) ==
  LET findings == AddEvidenceBullets(
                    GroundedSection(<<"Key", "Findings">>,
                      <<"Extracted", "findings", "from", "source", "content">>),
                    Take(evidence, FallbackLimit))
      recommendations == add_open_question(
                    GroundedSection(<<"Recommendations">>,
                      <<"Recommendations", "based", "on", "findings">>),
                    <<"Recommendations", "to", "be", "developed", "based",
                      "on", "findings">>)
  IN  (IF findings.bullets # <<>> THEN <<findings>> ELSE <<>>)
      \o <<recommendations>>

\* the outcome of the LLM call: llm.kind is "json" (a response holding a
\* JSON object of the expected shape, llm.sections), "no_json" (no JSON
\* object in the text), "bad_json" (json.loads raises), "exception" (the
\* call raises), "json_no_sections" (a JSON object without the key
\* "sections": result.get("sections", []) is empty) or "json_wrong_types"
\* (a JSON object whose "sections" is not a list of objects of strings and
\* lists: the conversion raises inside the try block)
analyze_with_evidence(evidence, config, llm) ==
  IF llm.kind = "json"
  THEN _apply_customer_constraints(
         [i \in 1..Len(llm.sections) |-> ParsedSection(llm.sections[i], evidence)],
         config)
  ELSE IF llm.kind = "json_no_sections"
  THEN _apply_customer_constraints(<<>>, config)
  ELSE _create_fallback_sections(evidence)

\* sections a caller builds by hand with add_bullet and add_open_question
\* (tests/test_smart_discovery.py, revisor.py __main__)
RECURSIVE AddBullets(_, _)
AddBullets(section, key_points) ==
  IF key_points = <<>> THEN section
  ELSE AddBullets(add_bullet(section, Head(key_points).text,
                             Head(key_points).evidence_ids),
                  Tail(key_points))

CallerSection(section_data) ==
  AddQuestions(
    AddBullets(GroundedSection(section_data.name, section_data.description),
               section_data.key_points),
    section_data.open_questions)

(***************************************************************************)
(* shared/evidence.py: validate_grounded_report                            *)
(***************************************************************************)
\* GroundedSection.validate_grounding: the texts of the ungrounded bullets
validate_grounding(section) ==
  LET ungrounded == SelectSeq(section.bullets, LAMBDA b : ~ is_grounded(b))
  IN  [j \in 1..Len(ungrounded) |-> ungrounded[j].text]

RECURSIVE UngroundedBullets(_)
UngroundedBullets(ss) ==
  IF ss = <<>> THEN <<>>
  ELSE LET ungrounded == validate_grounding(Head(ss))
       IN  [j \in 1..Len(ungrounded) |->
              [section |-> Head(ss).name, bullet |-> ungrounded[j]]]
           \o UngroundedBullets(Tail(ss))

RECURSIVE CountBullets(_)
CountBullets(ss) ==
  IF ss = <<>> THEN 0 ELSE Len(Head(ss).bullets) + CountBullets(Tail(ss))

validate_grounded_report(ss) ==
  LET ungrounded_bullets == UngroundedBullets(ss)
  IN  [valid |-> ungrounded_bullets = <<>>,
       total_sections |-> Len(ss),
       total_bullets |-> CountBullets(ss),
       grounded_bullets |-> CountBullets(ss) - Len(ungrounded_bullets),
       ungrounded_bullets |-> ungrounded_bullets,
       sections_with_questions |->
         Cardinality({i \in 1..Len(ss) : ss[i].open_questions # <<>>})]

\* validation before step 5
NoValidation ==
  [valid |-> TRUE, total_sections |-> 0, total_bullets |-> 0,
   grounded_bullets |-> 0, ungrounded_bullets |-> <<>>,
   sections_with_questions |-> 0]

(***************************************************************************)
(* agents/notion_reader.py and teams/smart_discovery.py                    *)
(***************************************************************************)
None == "None"

\* read_notion_page: outcome is "success" (the page was read), "blocked"
\* (the safety rules refuse the page, notion_reader.py 407-412) or "failed"
\* (no client answered, notion_reader.py 444-451)
read_notion_page(outcome) ==
  [success |-> outcome = "success",
   blocked |-> outcome = "blocked",
   content |-> CASE outcome = "success" -> "page content"
                 [] outcome = "failed" ->
                      "[Content unavailable - using fallback]"
                 [] OTHER -> "",
   error |-> IF outcome = "success" THEN None ELSE outcome]

\* smart_discovery.py 96-104
NewResult ==
  [success |-> FALSE, markdown_path |-> None, powerpoint_path |-> None,
   error |-> None]

ChunkSize == 6

\* len(range(0, n, 6))
Chunks(n) == (n + ChunkSize - 1) \div ChunkSize

Slide(kind, section) == [kind |-> kind, section |-> section]

\* smart_discovery.py 480-490: the content slides of section i
RECURSIVE ContentLoop(_, _, _, _, _, _)
ContentLoop(slides, i, chunks, section_slides, max_slides, per_section_max) ==
  IF chunks = 0 \/ Len(slides) >= max_slides
                \/ section_slides >= per_section_max
  THEN slides
  ELSE ContentLoop(Append(slides, Slide("content", i)), i, chunks - 1,
                   section_slides + 1, max_slides, per_section_max)

\* smart_discovery.py 443-490: the loop over the sections, from section i
RECURSIVE SectionLoop(_, _, _, _)
SectionLoop(slides, ss, i, config) ==
  IF i > Len(ss) \/ Len(slides) >= get_max_slides(config) THEN slides
  ELSE SectionLoop(
         ContentLoop(Append(slides, Slide("divider", i)), i,
                     Chunks(Len(ss[i].bullets) + Len(ss[i].open_questions)),
                     0, get_max_slides(config), get_per_section_max(config)),
         ss, i + 1, config)

\* _generate_powerpoint: the slides in order, or (None, 0) when the writer
\* raises (template, layout or save)
_generate_powerpoint(ss, config, writer_raises) ==
  IF writer_raises
  THEN [pptx_path |-> None, slide_count |-> 0, slides |-> <<>>]
  ELSE LET slides == SectionLoop(<<Slide("title", 0), Slide("agenda", 0)>>,
                                 ss, 1, config)
       IN  [pptx_path |-> "smart_discovery.pptx",
            slide_count |-> Len(slides), slides |-> slides]

\* variant: the run succeeds only if the deck was written
StorePowerpoint_required(result_so_far, pptx) ==
  IF pptx.pptx_path # None
  THEN [result_so_far EXCEPT !.powerpoint_path = pptx.pptx_path,
                             !.success = TRUE]
  ELSE result_so_far

\* smart_discovery.py 225-231
StorePowerpoint(result_so_far, pptx) ==
  IF pptx.pptx_path # None
  THEN [result_so_far EXCEPT !.powerpoint_path = pptx.pptx_path,
                             !.success = TRUE]
  ELSE [result_so_far EXCEPT !.success = TRUE]

(***************************************************************************)
(* Inputs of the pipeline                                                  *)
(***************************************************************************)
SeqsUpTo(S, n) == UNION {[1..k -> S] : k \in 0..n}

Item1 == [id |-> "E1", text |-> <<"alpha">>]

Item2 == [id |-> "E2", text |-> <<"findings", "beta">>]

EvidenceChoices == {<<>>, <<Item1, Item2>>}

\* "X" is an id no collection holds
IdLists == {<<>>, <<"E1">>, <<"X">>, <<"E1", "X">>}

Texts == {<<"alpha">>, <<"findings">>}

KeyPoints == [text : Texts, evidence_ids : IdLists]

Names == {<<"Key", "Findings">>, <<"Risks">>}

QuestionLists == {<<>>, <<NeedsEvidence(<<"alpha">>)>>}

SectionData(name, key_points, open_questions) ==
  [name |-> name, description |-> <<"about", "findings">>,
   key_points |-> key_points, open_questions |-> open_questions]

\* hand-written candidate sections: every shape of bullet, short lists
RichData ==
  {SectionData(n, k, q) : n \in Names, k \in SeqsUpTo(KeyPoints, MaxBullets),
                          q \in QuestionLists}

PairData ==
  {SectionData(n, k, <<>>) : n \in Names,
     k \in {<<>>, <<[text |-> <<"alpha">>, evidence_ids |-> <<"E1">>]>>,
            <<[text |-> <<"alpha">>, evidence_ids |-> <<"X">>]>>}}

RichLists ==
  {<<>>} \cup {<<d>> : d \in RichData}
         \cup {<<d, e>> : d \in PairData, e \in PairData}

\* generated sections: n bullets "Point j" citing E1, q open questions
LongSectionData(n, q) ==
  SectionData(<<"Risks">>,
    [j \in 1..n |-> [text |-> <<"Point", ToString(j)>>, evidence_ids |-> <<"E1">>]],
    [j \in 1..q |-> <<"Question", ToString(j)>>])

\* bullet counts around every multiple of 6 up to (MaxPsm + 1) slides
LongCounts == UNION {{6 * k, 6 * k + 1} : k \in 0..MaxPsm}

LongLists ==
  UNION {{[i \in 1..k |-> LongSectionData(c[i], IF i = 1 THEN q ELSE 0)] :
            c \in [1..k -> LongCounts], q \in 0..1} : k \in 1..MaxSections}

\* the default must_include of CustomerConfig
MustIncludes ==
  {<<<<"Executive", "Summary">>, <<"Key", "Findings">>, <<"Recommendations">>>>}

TerminologyMaps ==
  {<<>>, << <<<<"findings">>, <<"Insights">>>> >>,
   << <<<<"alpha">>, <<"beta">>>>, <<<<"Risks">>, <<"Key", "Risks">>>> >>}

SlideBudget(min, max, per_section_max) ==
  [min |-> min, max |-> max, per_section_max |-> per_section_max]

\* per_section_max as the config parser can produce it (\d+)
SlideBudgets ==
  {SlideBudget(mn, mx, p) : mn \in {2, 8}, mx \in {3, 5, 10}, p \in 0..MaxPsm}

GroundingScenarios ==
  [evidence : EvidenceChoices, must_include : MustIncludes,
   terminology_map : TerminologyMaps,
   slide_budget : {SlideBudget(8, 40, 6)},
   data : RichLists]

BudgetScenarios ==
  [evidence : {<<Item1>>}, must_include : {<<<<"Risks">>>>},
   terminology_map : {<<>>}, slide_budget : SlideBudgets, data : LongLists]

Scenario(slide_budget, data) ==
  [evidence |-> <<Item1>>, must_include |-> <<<<"Risks">>>>,
   terminology_map |-> <<>>, slide_budget |-> slide_budget, data |-> data]

\* the scenario of the specification's section 8 (three sections of 12
\* bullets) and the one of test_slide_budget_max_enforcement (ten sections
\* of 20 bullets)
FixedScenarios ==
  {Scenario(SlideBudget(8, 10, 1), [i \in 1..3 |-> LongSectionData(12, 0)]),
   Scenario(SlideBudget(5, 20, 2), [i \in 1..10 |-> LongSectionData(20, 0)])}

\* a document of more evidence items than the fallback section takes
ManyItems ==
  [j \in 1..(FallbackLimit + 1) |->
     [id |-> "E" \o ToString(j), text |-> <<"point", ToString(j)>>]]

FallbackScenarios ==
  [evidence : {ManyItems}, must_include : MustIncludes,
   terminology_map : {<<>>, << <<<<"findings">>, <<"Insights">>>> >>},
   slide_budget : {SlideBudget(8, 40, 6)},
   data : {<<>>}]

Scenarios ==
  GroundingScenarios \cup BudgetScenarios \cup FixedScenarios
  \cup FallbackScenarios

LlmKinds ==
  {"json", "no_json", "bad_json", "exception", "json_no_sections",
   "json_wrong_types"}

\* the arguments of smart_discover that select the content, and what the
\* Notion read does when it is called
SmartRequest(notion_url, raw_content, notion) ==
  [kind |-> "smart_discover", notion_url |-> notion_url,
   raw_content |-> raw_content, notion |-> notion]

\* a caller that runs the passes on sections of its own
DirectCall ==
  [kind |-> "direct", notion_url |-> FALSE, raw_content |-> FALSE,
   notion |-> "unused"]

NotionOutcomes == {"success", "failed", "blocked"}

Requests ==
  {SmartRequest(TRUE, r, n) : r \in BOOLEAN, n \in NotionOutcomes}
  \cup {SmartRequest(FALSE, r, "unused") : r \in BOOLEAN}
  \cup {DirectCall}

\* what follows step 1 does not read the request: every kind of request is
\* run on the fixed scenarios; the grounding scenarios come as raw content
\* or as sections of a caller, the other scenarios as raw content
RequestsOf(sc) ==
  IF sc \in FixedScenarios THEN Requests
  ELSE IF sc \in GroundingScenarios
       THEN {SmartRequest(FALSE, TRUE, "unused"), DirectCall}
       ELSE {SmartRequest(FALSE, TRUE, "unused")}

(***************************************************************************)
(* Inputs of the extractor                                                 *)
(***************************************************************************)
Rep(c, n) == [i \in 1..n |-> c]

RECURSIVE Join(_)
Join(ls) ==
  IF ls = <<>> THEN <<>>
  ELSE IF Len(ls) = 1 THEN Head(ls)
  ELSE Head(ls) \o <<"\n">> \o Join(Tail(ls))

RawLines ==
  { <<"#", " ", "A", "c", "m", "e", "s">>,
    <<"#", " ", "A", "b">>,
    <<"#", "#", " ", "B", "r", "a", "v", "o">>,
    <<"#", "#", "#", " ", "G", "a", "m", "m", "a">>,
    <<"-", " ", "a", "l", "p", "h", "a">>,
    <<" ", "-", " ", " ", "a", "l", "p", "h", "a", " ">>,
    <<"*", " ", "A", "c", "m", "e", "s">>,
    <<"-", " ">> \o Rep("a", QuoteCut) \o <<"x">>,
    <<"-", " ">> \o Rep("a", QuoteCut) \o <<"y">>,
    <<" ">>,
    <<"1", ".", " ", "d", "e", "l", "t", "a">>,
    <<">", " ", "q", "u", "o", "t", "e">>,
    <<"p", "l", "a", "i", "n", " ", "t">> }

Contents == {Join(ls) : ls \in SeqsUpTo(RawLines, MaxLines)}

PageIds == {<<"p", "1">>}

DefaultConfig ==
  [must_include |-> <<<<"Executive", "Summary">>, <<"Key", "Findings">>,
                      <<"Recommendations">>>>,
   terminology_map |-> <<>>,
   slide_budget |-> SlideBudget(8, 40, 6)]

(***************************************************************************)
(* Inputs of EvidenceCollection and of the slot filter                     *)
(***************************************************************************)
\* longest sequence of add and merge calls on the two collections
MaxOps == 3

ExplicitId == [prefix |-> "EVID-", hash |-> <<"given">>]

\* items a caller builds: generated ids, two items with the same id, an
\* item with an empty quote (its id is generated by add), a given id
BuiltItems ==
  { NewEvidenceItem(NoId, <<"p1">>, <<"alpha", "cloud">>, <<"alpha", "cloud">>),
    NewEvidenceItem(NoId, <<"p1">>, <<"alpha", "cloud">>, <<"Findings">>),
    NewEvidenceItem(NoId, <<"p1">>, <<>>, <<"beta">>),
    NewEvidenceItem(ExplicitId, <<"p2">>, <<"point", "given">>, <<"gamma">>) }

\* the items of a document of n bullets, as the extractor creates them
ExtractedItem(j) ==
  NewEvidenceItem(NoId, <<"p1">>, <<"point", ToString(j)>>,
                  <<"point", ToString(j)>>)

DocumentSizes == {_MIN_RELEVANT + 1, _MAX_RELEVANT + 1}

\* TemplateSlot.evidence_keywords
Slots ==
  { [evidence_keywords |-> <<>>],
    [evidence_keywords |-> <<<<"point">>>>],
    [evidence_keywords |-> <<<<"findings">>, <<"alpha", "cloud">>>>] }

\* the keyword lists handed to EvidenceCollection.search.  A quote, a text
\* and a keyword of this part are strings over an alphabet of symbols, one
\* element per symbol, so that python's + is \o and python's "in" is
\* ContainsText
SearchKeywords ==
  { <<<<"Findings">>>>,
    <<<<"point">>, <<"beta">>>>,
    <<<<"findings", "alpha">>>> }

\* no search was made yet
NoSearch == [keywords |-> <<>>, items |-> <<>>]

(***************************************************************************)
(* Inputs of apply_terminology                                             *)
(***************************************************************************)
\* longest text, in words
MaxWords == 3

\* most entries of a terminology mapping
MaxEntries == 2

Words == {"client", "Risks", "Key"}

OldTerms == {<<"client">>, <<"risks">>, <<"Key", "Risks">>}

NewTerms == {<<"Acme">>, <<"client">>, <<"Key", "Risks">>}

Entries == {<<old, new>> : old \in OldTerms, new \in NewTerms}

TermTexts == SeqsUpTo(Words, MaxWords)

TermMaps ==
  {m \in SeqsUpTo(Entries, MaxEntries) :
     \A i, j \in 1..Len(m) : i # j => m[i][1] # m[j][1]}

(***************************************************************************)
(* shared/config_loader.py: _parse_config_content.  A line of the config   *)
(* page is its kind (what the regular expressions of the parser make of    *)
(* it) and its text as a sequence of words.                                *)
(***************************************************************************)
ConfigLine(kind, words) == [kind |-> kind, words |-> words]

\* str.lower() of a word of a config page
LowerConfigWord(w) ==
  CASE w = "Required" -> "required"
    [] w = "Sections" -> "sections"
    [] w = "Terminology" -> "terminology"
    [] w = "Slide" -> "slide"
    [] w = "Budget" -> "budget"
    [] w = "Template" -> "template"
    [] w = "Slots" -> "slots"
    [] w = "Config:" -> "config:"
    [] w = "Max" -> "max"
    [] w = "Keywords:" -> "keywords:"
    [] OTHER -> LowerWord(w)

LowerConfig(t) == [i \in 1..Len(t) |-> LowerConfigWord(t[i])]

\* config_loader.py 105-118, on whole words; the keys in dict order
_SECTION_NAMES ==
  << [key |-> "required_sections",
      keywords |-> {<<"required", "section">>, <<"required", "sections">>,
                    <<"must", "include">>, <<"sections">>, <<"required">>}],
     [key |-> "terminology",
      keywords |-> {<<"terminology">>, <<"glossary">>, <<"term", "mapping">>,
                    <<"rename">>}],
     [key |-> "slide_budget",
      keywords |-> {<<"slide", "budget">>, <<"budget">>, <<"slides">>}],
     [key |-> "template_slots",
      keywords |-> {<<"template", "slot">>, <<"template", "slots">>,
                    <<"slot">>, <<"slots">>, <<"output", "structure">>,
                    <<"report", "structure">>}] >>

NoSection == "None"

\* config_loader.py 121-127: the first key one of whose keywords is in the
\* heading
_detect_section(heading_text) ==
  LET lower == LowerConfig(heading_text)
      hits == {k \in 1..Len(_SECTION_NAMES) :
                 \E kw \in _SECTION_NAMES[k].keywords : ContainsText(lower, kw)}
  IN  IF hits = {} THEN NoSection
      ELSE _SECTION_NAMES[CHOOSE k \in hits : \A j \in hits : k <= j].key

\* config_loader.py 130-142: the first prefix that matches is removed
_strip_name_prefix(text) ==
  LET lower == LowerConfig(text)
      prefixes == << <<"customer", "config:">>, <<"config:">>,
                     <<"customer:">>, <<"customer", "config">>, <<"config">> >>
      hits == {k \in 1..Len(prefixes) :
                 /\ Len(prefixes[k]) <= Len(lower)
                 /\ SubSeq(lower, 1, Len(prefixes[k])) = prefixes[k]}
  IN  IF hits = {} THEN text
      ELSE Drop(text, Len(prefixes[CHOOSE k \in hits : \A j \in hits : k <= j]))

\* config_loader.py 156-165: the first H1, else the page title
ExtractedName(config_lines, title) ==
  LET h1 == {i \in 1..Len(config_lines) : config_lines[i].kind = "h1"}
      name == IF h1 = {} THEN <<>>
              ELSE _strip_name_prefix(
                     config_lines[CHOOSE i \in h1 : \A j \in h1 : i <= j].words)
  IN  IF name = <<>> /\ title # <<>> THEN _strip_name_prefix(title) ELSE name

DefaultSlideBudget == [min |-> 8, max |-> 30, per_section_max |-> 4]

\* config_loader.py 177-185: the locals of the parser before the loop
NewParser ==
  [must_include |-> <<>>, terminology_map |-> <<>>,
   slide_budget |-> DefaultSlideBudget, slot_definitions |-> <<>>,
   current_section |-> NoSection, current_slot_name |-> <<>>,
   current_slot_desc_lines |-> <<>>]

RECURSIVE Flatten(_)
Flatten(ls) == IF ls = <<>> THEN <<>> ELSE Head(ls) \o Flatten(Tail(ls))

\* the position of the first word of t that is in S, 0 if there is none
FirstIn(t, S) ==
  IF \E i \in 1..Len(t) : t[i] \in S
  THEN CHOOSE i \in 1..Len(t) : t[i] \in S /\ \A j \in 1..(i - 1) : t[j] \notin S
  ELSE 0

\* config_loader.py 187-206
_flush_slot(p) ==
  IF p.current_slot_name = <<>> THEN p
  ELSE LET joined == Flatten(p.current_slot_desc_lines)
           at == FirstIn(LowerConfig(joined), {"keywords:", "keyword:"})
           desc == IF at = 0 THEN joined ELSE Take(joined, at - 1)
           keywords == IF at = 0 THEN <<>>
                       ELSE LowerConfig(Drop(joined, at))
       IN  [p EXCEPT
              !.slot_definitions = DictSet(@, p.current_slot_name,
                 [description |-> desc, evidence_keywords |-> keywords,
                  slide_count_target |-> p.slide_budget.per_section_max]),
              !.current_slot_name = <<>>,
              !.current_slot_desc_lines = <<>>]

\* int() of the digits the config pages of the model use
ParseInt(w) ==
  CASE w = "0" -> 0 [] w = "3" -> 3 [] w = "5" -> 5 [] w = "25" -> 25
    [] OTHER -> -1

\* config_loader.py 272-288: the first of the three patterns that matches
ParseBudgetItem(slide_budget, item) ==
  LET lower == LowerConfig(item)
      n == ParseInt(lower[Len(lower)])
  IN  IF n < 0 THEN slide_budget
      ELSE IF ContainsText(lower, <<"per", "section:">>)
           THEN [slide_budget EXCEPT !.per_section_max = n]
      ELSE IF ContainsText(lower, <<"max", "slides:">>)
              \/ ContainsText(lower, <<"max:">>)
           THEN [slide_budget EXCEPT !.max = n]
      ELSE IF ContainsText(lower, <<"min", "slides:">>)
              \/ ContainsText(lower, <<"min:">>)
           THEN [slide_budget EXCEPT !.min = n]
      ELSE slide_budget

\* config_loader.py 260-270: "old -> new", split at the first separator
ParseTerminologyItem(terminology_map, item) ==
  LET at == FirstIn(item, {"->"})
      old_term == Take(item, at - 1)
      new_term == Drop(item, at)
  IN  IF at # 0 /\ old_term # <<>> /\ new_term # <<>>
      THEN DictSet(terminology_map, old_term, new_term)
      ELSE terminology_map

\* config_loader.py 208-288: one turn of the loop over the lines
ParseConfigLine(p, line) ==
  IF line.kind = "h1"
  THEN _flush_slot([p EXCEPT !.current_section = NoSection])
  ELSE IF line.kind = "h2"
  THEN [_flush_slot(p) EXCEPT !.current_section = _detect_section(line.words),
                              !.current_slot_name = <<>>]
  ELSE IF line.kind = "h3" /\ p.current_section = "template_slots"
  THEN [_flush_slot(p) EXCEPT !.current_slot_name = line.words,
                              !.current_slot_desc_lines = <<>>]
  ELSE IF line.kind = "h3"
  THEN [_flush_slot(p) EXCEPT !.current_section = NoSection]
  ELSE IF p.current_section = "template_slots" /\ p.current_slot_name # <<>>
  THEN [p EXCEPT !.current_slot_desc_lines = Append(@, line.words)]
  ELSE IF line.kind # "bullet" \/ line.words = <<>> THEN p
  ELSE IF p.current_section = "required_sections"
  THEN [p EXCEPT !.must_include = Append(@, line.words)]
  ELSE IF p.current_section = "terminology"
  THEN [p EXCEPT !.terminology_map = ParseTerminologyItem(@, line.words)]
  ELSE IF p.current_section = "slide_budget"
  THEN [p EXCEPT !.slide_budget = ParseBudgetItem(@, line.words)]
  ELSE p

DefaultMustInclude ==
  <<<<"Executive", "Summary">>, <<"Key", "Findings">>, <<"Recommendations">>>>

\* config_loader.py 304-311: a slot for every required section without one
RECURSIVE BackfillSlots(_, _, _)
BackfillSlots(slot_definitions, must_include, slide_budget) ==
  IF must_include = <<>> THEN slot_definitions
  ELSE LET section_name == Head(must_include)
           keywords == SelectSeq(LowerConfig(section_name),
                                 LAMBDA w : Len(w) > 3)
       IN  BackfillSlots(
             IF section_name \in DictKeys(slot_definitions)
             THEN slot_definitions
             ELSE DictSet(slot_definitions, section_name,
                    [description |-> <<>>, evidence_keywords |-> keywords,
                     slide_count_target |-> slide_budget.per_section_max]),
             Tail(must_include), slide_budget)

\* config_loader.py 313-319
BuildCustomerConfig(name, must_include, p) ==
  [name |-> name, must_include |-> must_include,
   terminology_map |-> p.terminology_map, slide_budget |-> p.slide_budget,
   slot_definitions |-> BackfillSlots(p.slot_definitions, must_include,
                                      p.slide_budget)]

NoCustomerConfig ==
  [name |-> <<>>, must_include |-> <<>>, terminology_map |-> <<>>,
   slide_budget |-> DefaultSlideBudget, slot_definitions |-> <<>>]

(***************************************************************************)
(* Inputs of the config parser                                             *)
(***************************************************************************)
\* number of lines of a config page
MaxConfigLines == 3

ConfigLines ==
  { ConfigLine("h1", <<"Config:", "Acme">>),
    ConfigLine("h2", <<"Required", "Sections">>),
    ConfigLine("h2", <<"Terminology">>),
    ConfigLine("h2", <<"Slide", "Budget">>),
    ConfigLine("h2", <<"Template", "Slots">>),
    ConfigLine("h3", <<"Risks">>),
    ConfigLine("bullet", <<"Risks">>),
    ConfigLine("bullet", <<"Customer", "->", "Client">>),
    ConfigLine("bullet", <<"Max", "slides:", "25">>),
    ConfigLine("para", <<"Keywords:", "cloud">>) }

ConfigPages == SeqsUpTo(ConfigLines, MaxConfigLines)

PageTitles == {<<>>, <<"Acme">>}

FallbackName == <<"Client">>

(***************************************************************************)
(* teams/discovery_orchestrator.py and shared/state.py: the report state   *)
(* and the commands of the orchestrator.  A user message is a sequence of  *)
(* characters; a section title is one string.                              *)
(***************************************************************************)
SectionState(title) ==
  [title |-> title, draft |-> "", feedback_history |-> <<>>,
   status |-> "pending", revision_count |-> 0]

ChangelogEntry(section_title, action) ==
  [section_title |-> section_title, action |-> action]

ReportState ==
  [template_sections |-> <<>>, current_section_index |-> 0,
   sections |-> <<>>, changelog |-> <<>>, status |-> "initialized"]

DEFAULT_TEMPLATE_SECTIONS ==
  <<"Executive Summary", "Business Context",
    "Technical Architecture Overview", "Technology Stack",
    "Infrastructure & Hosting", "Security & Identity",
    "Development Practices", "Team & Organization",
    "Support & Operations", "Recommendations">>

\* state.py 78-82
get_current_section_title(state) ==
  IF state.current_section_index >= Len(state.template_sections) THEN None
  ELSE state.template_sections[state.current_section_index + 1]

\* variant: the index moves by two
advance_section_twice(state) ==
  [state EXCEPT !.current_section_index = @ + 2]

\* state.py 84-87: the state after the call; the call returns
\* current_section_index < len(template_sections) of that state
advance_section(state) ==
  [state EXCEPT !.current_section_index = @ + 1]

\* state.sections[title] with one field assigned
WithSection(state, title, field, value) ==
  [state EXCEPT !.sections =
     DictSet(@, title, [DictGet(@, title) EXCEPT ![field] = value])]

\* discovery_orchestrator.py 411-485: the current section is drafted and
\* reviewed by the agents
process_current_section(state) ==
  LET section_title == get_current_section_title(state)
  IN  IF section_title = None THEN state
      ELSE LET section == DictGet(state.sections, section_title)
           IN  [state EXCEPT !.sections =
                  DictSet(@, section_title,
                    [section EXCEPT !.status = "reviewing",
                                    !.draft = "drafted",
                                    !.revision_count = @ + 1])]

\* discovery_orchestrator.py 357-362: state.sections[title] = SectionState()
RECURSIVE InitSections(_, _)
InitSections(sections, titles) ==
  IF titles = <<>> THEN sections
  ELSE InitSections(DictSet(sections, Head(titles), SectionState(Head(titles))),
                    Tail(titles))

\* discovery_orchestrator.py 307-408.  template is what reading the template
\* page gave: no url, a failed read, or the H3 headings of the page
process_start_command(template, customer_config, state) ==
  LET read == IF template.url /\ template.success
              THEN [state EXCEPT !.template_sections = template.h3_sections]
              ELSE state
      titled == IF read.template_sections = <<>>
                THEN [read EXCEPT !.template_sections =
                        IF customer_config.mandatory_sections # <<>>
                        THEN customer_config.mandatory_sections
                        ELSE DEFAULT_TEMPLATE_SECTIONS]
                ELSE read
      initialized == [titled EXCEPT
                        !.sections = InitSections(@, titled.template_sections),
                        !.status = "processing",
                        !.current_section_index = 0]
  IN  process_current_section(initialized)

\* discovery_orchestrator.py 520-533 and 548-560: after the changelog entry,
\* advance and draft the next section, or complete the report
AdvanceOrComplete(state) ==
  LET advanced == advance_section(state)
  IN  IF advanced.current_section_index < Len(advanced.template_sections)
      THEN process_current_section(advanced)
      ELSE [advanced EXCEPT !.status = "completed"]

\* discovery_orchestrator.py 508-533
approve_current_section(state) ==
  LET section_title == get_current_section_title(state)
  IN  IF section_title = None THEN state
      ELSE AdvanceOrComplete(
             [WithSection(state, section_title, "status", "approved")
                EXCEPT !.changelog =
                  Append(@, ChangelogEntry(section_title, "approved"))])

\* discovery_orchestrator.py 536-560
skip_current_section(state) ==
  LET section_title == get_current_section_title(state)
  IN  IF section_title = None THEN state
      ELSE AdvanceOrComplete(
             [WithSection(state, section_title, "status", "skipped")
                EXCEPT !.changelog =
                  Append(@, ChangelogEntry(section_title, "skipped"))])

\* discovery_orchestrator.py 563-626
revise_with_feedback(feedback, state) ==
  LET section_title == get_current_section_title(state)
  IN  IF section_title = None THEN state
      ELSE LET section == DictGet(state.sections, section_title)
           IN  [state EXCEPT !.sections =
                  DictSet(@, section_title,
                    [section EXCEPT
                       !.feedback_history = Append(@, feedback),
                       !.draft = "revised",
                       !.revision_count = @ + 1])]

\* discovery_orchestrator.py 629-659 and 717-719 change no field
get_status(state) == state

export_final_report(state) == state

\* str.lower() of one character of a message
LowerChar(c) ==
  CASE c = "S" -> "s"
    [] c = "O" -> "o"
    [] c = "K" -> "k"
    [] c = "F" -> "f"
    [] OTHER -> c

LowerMessage(m) == [i \in 1..Len(m) |-> LowerChar(m[i])]

approve_keywords ==
  << <<"a", "p", "p", "r", "o", "v", "e">>,
     <<"a", "p", "p", "r", "o", "v", "e", "d">>,
     <<"o", "k">>,
     <<"o", "k", "a", "y">>,
     <<"n", "e", "x", "t">>,
     <<"l", "g", "t", "m">>,
     <<"l", "o", "o", "k", "s", " ", "g", "o", "o", "d">>,
     <<"a", "c", "c", "e", "p", "t">>,
     <<"y", "e", "s">> >>

\* discovery_orchestrator.py 493: any(kw in message_lower for kw in ...)
IsApproval(message_lower) ==
  \E k \in 1..Len(approve_keywords) :
    ContainsText(message_lower, approve_keywords[k])

\* discovery_orchestrator.py 488-505
process_user_feedback(user_message, state) ==
  LET message_lower == Strip(LowerMessage(user_message))
  IN  IF IsApproval(message_lower) THEN approve_current_section(state)
      ELSE IF message_lower = <<"s", "k", "i", "p">> THEN skip_current_section(state)
      ELSE IF message_lower = <<"e", "x", "p", "o", "r", "t">> THEN export_final_report(state)
      ELSE IF message_lower = <<"s", "t", "a", "t", "u", "s">> THEN get_status(state)
      ELSE revise_with_feedback(user_message, state)

(***************************************************************************)
(* Inputs of the orchestrator                                              *)
(***************************************************************************)
\* longest sequence of commands on one report state
MaxCommands == 4

\* what reading the template page gives
TemplateReads ==
  { [url |-> FALSE, success |-> FALSE, h3_sections |-> <<>>],
    [url |-> TRUE, success |-> FALSE, h3_sections |-> <<>>],
    [url |-> TRUE, success |-> TRUE, h3_sections |-> <<>>],
    [url |-> TRUE, success |-> TRUE, h3_sections |-> <<"Scope">>],
    [url |-> TRUE, success |-> TRUE, h3_sections |-> <<"Scope", "Risks">>] }

OrchestratorConfigs ==
  { [mandatory_sections |-> <<>>],
    [mandatory_sections |-> <<"Summary">>] }

\* commands, approval replies and corrections a user sends
UserMessages ==
  { <<"a", "p", "p", "r", "o", "v", "e">>,
    <<"O", "K">>,
    <<" ", "S", "k", "i", "p", " ">>,
    <<"s", "t", "a", "t", "u", "s">>,
    <<"e", "x", "p", "o", "r", "t">>,
    <<"f", "i", "x", " ", "t", "y", "p", "o">>,
    <<"f", "i", "x", " ", "t", "o", "k", "e", "n">> }

\* no command was given yet
NoMessage == <<>>

(***************************************************************************)
(* State: a call of smart_discover (or of its passes), a caller of the     *)
(* extractor, two evidence collections, a text under apply_terminology     *)
(***************************************************************************)
VARIABLES pc, evidence, config, data, origin, sections, before, revised,
          request, llm_kind, validation, result, pptx,
          xpc, content, page_id, lines, idx, current_path, collection,
          clock, results,
          target, other, relevant, found, ops, op, prior,
          term_text, term_map, term_history,
          kpc, config_lines, config_title, kidx, parser, parsed, warnings,
          state, command, user_message, state_before, commands

pvars == <<pc, evidence, config, data, origin, sections, before, revised,
           request, llm_kind, validation, result, pptx>>

xvars == <<xpc, content, page_id, lines, idx, current_path, collection,
           clock, results>>

cvars == <<target, other, relevant, found, ops, op, prior>>

tvars == <<term_text, term_map, term_history>>

kvars == <<kpc, config_lines, config_title, kidx, parser, parsed, warnings>>

ovars == <<state, command, user_message, state_before, commands>>

vars == <<pvars, xvars, cvars, tvars, kvars, ovars>>

NoPptx == [pptx_path |-> None, slide_count |-> 0, slides |-> <<>>]

PipelineAtRest ==
  /\ pc = "idle"
  /\ evidence = <<>>
  /\ config = DefaultConfig
  /\ data = <<>>
  /\ origin = "none"
  /\ sections = <<>>
  /\ before = <<>>
  /\ revised = FALSE
  /\ request = DirectCall
  /\ llm_kind = "none"
  /\ validation = NoValidation
  /\ result = NewResult
  /\ pptx = NoPptx

ExtractorAtRest ==
  /\ xpc = "idle"
  /\ content = <<>>
  /\ page_id = <<>>
  /\ lines = <<>>
  /\ idx = 0
  /\ current_path = <<>>
  /\ collection = <<>>
  /\ clock = 0
  /\ results = <<>>

\* EvidenceCollection(): two empty collections, evidence.py 54
CollectionsAtRest ==
  /\ target = <<>>
  /\ other = <<>>
  /\ relevant = <<>>
  /\ found = NoSearch
  /\ ops = 0
  /\ op = "none"
  /\ prior = [target |-> <<>>, other |-> <<>>]

TerminologyAtRest ==
  /\ term_text = <<>>
  /\ term_map = <<>>
  /\ term_history = <<>>

ConfigAtRest ==
  /\ kpc = "idle"
  /\ config_lines = <<>>
  /\ config_title = <<>>
  /\ kidx = 0
  /\ parser = NewParser
  /\ parsed = NoCustomerConfig
  /\ warnings = <<>>

\* a new ReportState that no command was applied to
OrchestratorAtRest ==
  /\ state = ReportState
  /\ command = "none"
  /\ user_message = NoMessage
  /\ state_before = ReportState
  /\ commands = 0

Init ==
  /\ \E sc \in Scenarios : \E rq \in RequestsOf(sc) :
       /\ pc = "start"
       /\ request = rq
       /\ evidence = sc.evidence
       /\ config = [must_include |-> sc.must_include,
                    terminology_map |-> sc.terminology_map,
                    slide_budget |-> sc.slide_budget]
       /\ data = sc.data
       /\ origin = "none"
       /\ sections = <<>>
       /\ before = <<>>
       /\ revised = FALSE
       /\ llm_kind = "none"
       /\ validation = NoValidation
       /\ result = NewResult
       /\ pptx = NoPptx
  /\ ExtractorAtRest
  /\ CollectionsAtRest
  /\ TerminologyAtRest
  /\ ConfigAtRest
  /\ OrchestratorAtRest

\* smart_discovery.py 120-146: the content comes from the Notion page or
\* from raw_content; evidence holds the items of that content
GetContent ==
  /\ pc = "start"
  /\ request.kind = "smart_discover"
  /\ LET notion_result == read_notion_page(request.notion)
     IN  IF request.notion_url
         THEN IF ~ notion_result.success
              THEN /\ result' = [result EXCEPT !.error = "Failed to read Notion"]
                   /\ pc' = "returned"
              ELSE /\ pc' = "input"
                   /\ UNCHANGED result
         ELSE IF request.raw_content
              THEN /\ pc' = "input"
                   /\ UNCHANGED result
              ELSE /\ result' = [result EXCEPT !.error = "No content provided"]
                   /\ pc' = "returned"
  /\ UNCHANGED <<evidence, config, data, origin, sections, before, revised,
                 request, llm_kind, validation, pptx, xvars, cvars, tvars, kvars, ovars>>

\* smart_discovery.py 156: the sections come from the LLM call, whose
\* response holds data, or from a fallback
AnalyzeWithEvidence ==
  /\ pc = "input"
  /\ \E kind \in LlmKinds :
       /\ sections' = analyze_with_evidence(evidence, config,
                        [kind |-> kind, sections |-> data])
       /\ origin' = IF kind \in {"json", "json_no_sections"} THEN "llm"
                    ELSE "fallback"
       /\ llm_kind' = kind
  /\ pc' = "sections"
  /\ data' = <<>>
  /\ UNCHANGED <<evidence, config, before, revised, request, validation,
                 result, pptx, xvars, cvars, tvars, kvars, ovars>>

\* a caller hands its own sections to the passes
CallerSections ==
  /\ pc = "start"
  /\ request.kind = "direct"
  /\ sections' = [i \in 1..Len(data) |-> CallerSection(data[i])]
  /\ origin' = "caller"
  /\ pc' = "sections"
  /\ data' = <<>>
  /\ UNCHANGED <<evidence, config, before, revised, request, llm_kind,
                 validation, result, pptx, xvars, cvars, tvars, kvars, ovars>>

\* smart_discovery.py 166
ReviseSections ==
  /\ pc = "sections"
  /\ before' = sections
  /\ sections' = revise_sections(sections, evidence, config)
  /\ revised' = TRUE
  /\ pc' = "revised"
  /\ UNCHANGED <<evidence, config, data, origin, request, llm_kind,
                 validation, result, pptx, xvars, cvars, tvars, kvars, ovars>>

\* smart_discovery.py 175; the tests call it on unrevised sections too
EnforceSlideBudget ==
  /\ \/ pc = "revised"
     \/ pc = "sections" /\ request.kind = "direct"
  /\ before' = sections
  /\ sections' = enforce_slide_budget(sections, config)
  /\ pc' = "enforced"
  /\ UNCHANGED <<evidence, config, data, origin, revised, request, llm_kind,
                 validation, result, pptx, xvars, cvars, tvars, kvars, ovars>>

\* smart_discovery.py 182-183; the tests call it on the sections they built
ValidateGroundedReport ==
  /\ \/ pc = "enforced" /\ request.kind = "smart_discover"
     \/ pc = "sections" /\ request.kind = "direct"
  /\ validation' = validate_grounded_report(sections)
  /\ pc' = "validated"
  /\ UNCHANGED <<evidence, config, data, origin, sections, before, revised,
                 request, llm_kind, result, pptx, xvars, cvars, tvars, kvars, ovars>>

\* smart_discovery.py 196-210
GenerateMarkdown ==
  /\ pc = "validated"
  /\ request.kind = "smart_discover"
  /\ result' = [result EXCEPT !.markdown_path = "smart_discovery.md"]
  /\ pc' = "markdown"
  /\ UNCHANGED <<evidence, config, data, origin, sections, before, revised,
                 request, llm_kind, validation, pptx, xvars, cvars, tvars, kvars, ovars>>

\* smart_discovery.py 217-237: the slide writer runs or raises, and the
\* result is returned
GeneratePowerpoint ==
  /\ pc = "markdown"
  /\ \E writer_raises \in BOOLEAN :
       /\ pptx' = _generate_powerpoint(sections, config, writer_raises)
       /\ result' = StorePowerpoint(result, pptx')
  /\ pc' = "returned"
  /\ UNCHANGED <<evidence, config, data, origin, sections, before, revised,
                 request, llm_kind, validation, xvars, cvars, tvars, kvars, ovars>>

Next ==
  \/ GetContent
  \/ AnalyzeWithEvidence
  \/ CallerSections
  \/ ReviseSections
  \/ EnforceSlideBudget
  \/ ValidateGroundedReport
  \/ GenerateMarkdown
  \/ GeneratePowerpoint

Spec == Init /\ [][Next]_vars

(***************************************************************************)
(* extract_evidence_from_content, called twice on the same content; the    *)
(* clock (datetime.now) keeps running between the calls                    *)
(***************************************************************************)
InitExtract ==
  /\ PipelineAtRest
  /\ CollectionsAtRest
  /\ TerminologyAtRest
  /\ xpc = "call"
  /\ content \in Contents
  /\ page_id \in PageIds
  /\ lines = <<>>
  /\ idx = 0
  /\ current_path = <<>>
  /\ collection = <<>>
  /\ clock = 0
  /\ results = <<>>
  /\ ConfigAtRest
  /\ OrchestratorAtRest

\* evidence.py 279-285
BeginExtraction ==
  /\ xpc = "call"
  /\ lines' = Split(content)
  /\ current_path' = <<>>
  /\ collection' = <<>>
  /\ idx' = 1
  /\ xpc' = "loop"
  /\ UNCHANGED <<content, page_id, clock, results, pvars, cvars, tvars, kvars, ovars>>

\* evidence.py 287-336: one iteration of the loop over the lines
ExtractLine ==
  /\ xpc = "loop"
  /\ idx <= Len(lines)
  /\ LET line == Strip(lines[idx])
         path == PathAfter(line, current_path)
         block == Block(line)
     IN  IF line = <<>>
         THEN UNCHANGED <<current_path, collection, clock>>
         ELSE /\ current_path' = path
              /\ IF TooShort(block.text)
                 THEN UNCHANGED <<collection, clock>>
                 ELSE /\ collection' = add(collection,
                           EvidenceItem(page_id, path, block.text, block.text,
                                        block.block_type, clock))
                      /\ clock' = clock + 1
  /\ idx' = idx + 1
  /\ UNCHANGED <<xpc, content, page_id, lines, results, pvars, cvars, tvars, kvars, ovars>>

\* evidence.py 338
ReturnCollection ==
  /\ xpc = "loop"
  /\ idx > Len(lines)
  /\ results' = Append(results, collection)
  /\ xpc' = "returned"
  /\ UNCHANGED <<content, page_id, lines, idx, current_path, collection,
                 clock, pvars, cvars, tvars, kvars, ovars>>

\* the same content and page_id are extracted once more
ExtractAgain ==
  /\ xpc = "returned"
  /\ Len(results) < 2
  /\ xpc' = "call"
  /\ UNCHANGED <<content, page_id, lines, idx, current_path, collection,
                 clock, results, pvars, cvars, tvars, kvars, ovars>>

NextExtract ==
  \/ BeginExtraction
  \/ ExtractLine
  \/ ReturnCollection
  \/ ExtractAgain

SpecExtract == InitExtract /\ [][NextExtract]_vars

(***************************************************************************)
(* Two EvidenceCollections that start empty: items are added to either,    *)
(* other is merged into target, and the controller filters target for a    *)
(* slot                                                                    *)
(***************************************************************************)
InitCollections ==
  /\ PipelineAtRest
  /\ ExtractorAtRest
  /\ TerminologyAtRest
  /\ CollectionsAtRest
  /\ ConfigAtRest
  /\ OrchestratorAtRest

\* collection.add(item)
AddToTarget ==
  /\ ops < MaxOps
  /\ \E item \in BuiltItems :
       target' = EvidenceCollection_add(target, item)
  /\ prior' = [target |-> target, other |-> other]
  /\ ops' = ops + 1
  /\ op' = "add"
  /\ UNCHANGED <<other, relevant, found, pvars, xvars, tvars, kvars, ovars>>

AddToOther ==
  /\ ops < MaxOps
  /\ \E item \in BuiltItems :
       other' = EvidenceCollection_add(other, item)
  /\ prior' = [target |-> target, other |-> other]
  /\ ops' = ops + 1
  /\ op' = "add"
  /\ UNCHANGED <<target, relevant, found, pvars, xvars, tvars, kvars, ovars>>

\* add(item j), ..., add(item n) in this order (unfolded by halves)
RECURSIVE AddExtracted(_, _, _)
AddExtracted(items, j, n) ==
  IF j > n THEN items
  ELSE IF j = n THEN EvidenceCollection_add(items, ExtractedItem(j))
  ELSE LET mid == (j + n) \div 2
           first == AddExtracted(items, j, mid)
       IN  IF Len(first) >= 0 THEN AddExtracted(first, mid + 1, n) ELSE first

\* evidence.py 326-336: the items of a whole document are added
AddDocument ==
  /\ ops < MaxOps
  /\ \E n \in DocumentSizes : target' = AddExtracted(target, 1, n)
  /\ prior' = [target |-> target, other |-> other]
  /\ ops' = ops + 1
  /\ op' = "add"
  /\ UNCHANGED <<other, relevant, found, pvars, xvars, tvars, kvars, ovars>>

\* target.merge(other)
Merge ==
  /\ ops < MaxOps
  /\ target' = EvidenceCollection_merge(target, other)
  /\ prior' = [target |-> target, other |-> other]
  /\ ops' = ops + 1
  /\ op' = "merge"
  /\ UNCHANGED <<other, relevant, found, pvars, xvars, tvars, kvars, ovars>>

\* controller.py 75: relevant = _filter_evidence(slot, evidence)
FilterEvidence ==
  /\ op # "filter"
  /\ \E slot \in Slots : relevant' = _filter_evidence(slot, target)
  /\ op' = "filter"
  /\ UNCHANGED <<target, other, found, ops, prior, pvars, xvars, tvars, kvars, ovars>>

\* evidence.py 78-85: target.search(keywords)
Search ==
  /\ op # "search"
  /\ \E keywords \in SearchKeywords :
       found' = [keywords |-> keywords,
                 items |-> EvidenceCollection_search(target, keywords)]
  /\ op' = "search"
  /\ UNCHANGED <<target, other, relevant, ops, prior, pvars, xvars, tvars, kvars, ovars>>

NextCollections ==
  \/ AddToTarget
  \/ AddToOther
  \/ AddDocument
  \/ Merge
  \/ FilterEvidence

SpecCollections == InitCollections /\ [][NextCollections]_vars

(***************************************************************************)
(* A collection that items are added to and that is searched               *)
(***************************************************************************)
InitSearch == InitCollections

NextSearch ==
  \/ AddToTarget
  \/ Search

SpecSearch == InitSearch /\ [][NextSearch]_vars

(***************************************************************************)
(* apply_terminology applied again and again to its own result             *)
(***************************************************************************)
InitTerminology ==
  /\ PipelineAtRest
  /\ ExtractorAtRest
  /\ CollectionsAtRest
  /\ term_text \in TermTexts
  /\ term_map \in TermMaps
  /\ term_history = <<>>
  /\ ConfigAtRest
  /\ OrchestratorAtRest

\* config.apply_terminology(text)
ApplyTerminology ==
  /\ Len(term_history) < 2
  /\ term_text' = apply_terminology(term_map, term_text)
  /\ term_history' = Append(term_history, term_text)
  /\ UNCHANGED <<term_map, pvars, xvars, cvars, kvars, ovars>>

NextTerminology == ApplyTerminology

SpecTerminology == InitTerminology /\ [][NextTerminology]_vars

(***************************************************************************)
(* parse_config_from_text / load_customer_config_from_notion: one config   *)
(* page run through _parse_config_content                                  *)
(***************************************************************************)
NameWarning == "No customer name found in config page"

RequiredSectionsWarning == "No Required Sections found in config page"

InitConfig ==
  /\ PipelineAtRest
  /\ ExtractorAtRest
  /\ CollectionsAtRest
  /\ TerminologyAtRest
  /\ OrchestratorAtRest
  /\ kpc = "name"
  /\ config_lines \in ConfigPages
  /\ config_title \in PageTitles
  /\ kidx = 0
  /\ parser = NewParser
  /\ parsed = NoCustomerConfig
  /\ warnings = <<>>

\* config_loader.py 156-172
ExtractName ==
  /\ kpc = "name"
  /\ LET name == ExtractedName(config_lines, config_title)
     IN  IF name = <<>>
         THEN /\ parsed' = [parsed EXCEPT !.name = FallbackName]
              /\ warnings' = Append(warnings, NameWarning)
         ELSE /\ parsed' = [parsed EXCEPT !.name = name]
              /\ UNCHANGED warnings
  /\ kpc' = "lines"
  /\ UNCHANGED <<config_lines, config_title, kidx, parser,
                 pvars, xvars, cvars, tvars, ovars>>

\* config_loader.py 208-288
ParseLine ==
  /\ kpc = "lines"
  /\ kidx < Len(config_lines)
  /\ parser' = ParseConfigLine(parser, config_lines[kidx + 1])
  /\ kidx' = kidx + 1
  /\ UNCHANGED <<kpc, config_lines, config_title, parsed, warnings,
                 pvars, xvars, cvars, tvars, ovars>>

\* config_loader.py 290-328
ReturnConfig ==
  /\ kpc = "lines"
  /\ kidx = Len(config_lines)
  /\ LET flushed == _flush_slot(parser)
     IN  /\ parser' = flushed
         /\ IF flushed.must_include = <<>>
            THEN /\ parsed' = BuildCustomerConfig(parsed.name,
                                DefaultMustInclude, flushed)
                 /\ warnings' = Append(warnings, RequiredSectionsWarning)
            ELSE /\ parsed' = BuildCustomerConfig(parsed.name,
                                flushed.must_include, flushed)
                 /\ UNCHANGED warnings
  /\ kpc' = "done"
  /\ UNCHANGED <<config_lines, config_title, kidx,
                 pvars, xvars, cvars, tvars, ovars>>

NextConfig ==
  \/ ExtractName
  \/ ParseLine
  \/ ReturnConfig

SpecConfig == InitConfig /\ [][NextConfig]_vars

(***************************************************************************)
(* The orchestrator: commands applied to one ReportState, in any order     *)
(***************************************************************************)
InitOrchestrator ==
  /\ PipelineAtRest
  /\ ExtractorAtRest
  /\ CollectionsAtRest
  /\ TerminologyAtRest
  /\ ConfigAtRest
  /\ OrchestratorAtRest

\* process_start_command(template_url, intake_urls, customer_config, state)
Start ==
  /\ commands < MaxCommands
  /\ \E template \in TemplateReads, customer_config \in OrchestratorConfigs :
       state' = process_start_command(template, customer_config, state)
  /\ command' = "start"
  /\ user_message' = NoMessage
  /\ state_before' = state
  /\ commands' = commands + 1
  /\ UNCHANGED <<pvars, xvars, cvars, tvars, kvars>>

\* process_user_feedback(user_message, state): approve, skip, status,
\* export and corrections all arrive as a user message
ProcessUserFeedback ==
  /\ commands < MaxCommands
  /\ \E message \in UserMessages :
       /\ state' = process_user_feedback(message, state)
       /\ user_message' = message
  /\ command' = "feedback"
  /\ state_before' = state
  /\ commands' = commands + 1
  /\ UNCHANGED <<pvars, xvars, cvars, tvars, kvars>>

NextOrchestrator ==
  \/ Start
  \/ ProcessUserFeedback

SpecOrchestrator == InitOrchestrator /\ [][NextOrchestrator]_vars

(***************************************************************************)
(* Properties of the revision pass                                         *)
(***************************************************************************)
Sections == 1..Len(sections)

Dropped(i) == removed_bullets(evidence, before[i].bullets)

\* the open questions of section i that quote the text of a dropped bullet
QuestionsForDropped(i) ==
  {k \in 1..Len(sections[i].open_questions) :
     \E j \in 1..Len(Dropped(i)) :
        sections[i].open_questions[k] = NeedsEvidence(Dropped(i)[j].text)}

\* C1: after revise_sections every bullet of every section has a non-empty
\* evidence_ids list and every id of it resolves in the evidence collection
C1_GroundingInvariant ==
  pc = "revised" =>
    \A i \in Sections : \A j \in 1..Len(sections[i].bullets) :
      /\ sections[i].bullets[j].evidence_ids # <<>>
      /\ \A k \in 1..Len(sections[i].bullets[j].evidence_ids) :
           Resolves(evidence, sections[i].bullets[j].evidence_ids[k])

\* a bullet citing a resolving and a dangling id went through the pass
C1_Witness ==
  /\ pc = "revised"
  /\ \E i \in Sections : \E j \in 1..Len(before[i].bullets) :
       /\ before[i].bullets[j].evidence_ids = <<"E1", "X">>
       /\ Resolves(evidence, "E1")
       /\ Len(sections[i].bullets) < Len(before[i].bullets)
       /\ Len(sections[i].bullets) > 0

\* C2 as claimed: a section with N bullets of which K have no resolving id
\* keeps N-K bullets and has at least K open questions quoting dropped text
C2_AtLeastKQuestions ==
  pc = "revised" =>
    \A i \in Sections :
      /\ Len(sections[i].bullets) = Len(before[i].bullets) - Len(Dropped(i))
      /\ Cardinality(QuestionsForDropped(i)) >= Len(Dropped(i))

\* C2 amended: N-K bullets remain and the open questions hold
\* "Needs evidence: <text>" for the text of every dropped bullet (one
\* question per distinct dropped text at least)
C2_NoSilentLoss ==
  pc = "revised" =>
    \A i \in Sections :
      /\ Len(sections[i].bullets) = Len(before[i].bullets) - Len(Dropped(i))
      /\ \A j \in 1..Len(Dropped(i)) :
           NeedsEvidence(Dropped(i)[j].text) \in Range(sections[i].open_questions)
      /\ Cardinality(QuestionsForDropped(i))
           >= Cardinality({Dropped(i)[j].text : j \in 1..Len(Dropped(i))})

\* two bullets with the same text are dropped and one is kept
C2_Witness ==
  /\ pc = "revised"
  /\ \E i \in Sections :
       /\ Len(Dropped(i)) = 2
       /\ Dropped(i)[1].text = Dropped(i)[2].text
       /\ Cardinality(QuestionsForDropped(i)) = 1

\* C3: after the revision pass of a discovered section list every name of
\* must_include is contained, case-insensitively, in some section name
C3_RequiredSectionsCovered ==
  (pc = "revised" /\ origin \in {"llm", "fallback"}) =>
    \A m \in 1..Len(config.must_include) :
      \E i \in Sections :
        ContainsText(Lower(sections[i].name), Lower(config.must_include[m]))

(***************************************************************************)
(* Properties of the slide budget                                          *)
(***************************************************************************)
CeilDiv(n, d) == (n + d - 1) \div d

Items(section) == Len(section.bullets) + Len(section.open_questions)

RECURSIVE TotalBullets(_)
TotalBullets(ss) ==
  IF ss = <<>> THEN 0 ELSE Len(Head(ss).bullets) + TotalBullets(Tail(ss))

RECURSIVE SpecEstimate(_, _)
SpecEstimate(ss, per_section_max) ==
  IF ss = <<>> THEN FixedSlides
  ELSE 1 + Min(per_section_max, CeilDiv(Items(Head(ss)), BulletsPerSlide))
       + SpecEstimate(Tail(ss), per_section_max)

RECURSIVE FlooredEstimate(_, _)
FlooredEstimate(ss, per_section_max) ==
  IF ss = <<>> THEN FixedSlides
  ELSE 1 + Min(per_section_max,
               Max(1, CeilDiv(Items(Head(ss)), BulletsPerSlide)))
       + FlooredEstimate(Tail(ss), per_section_max)

\* C4: with the budget {min 8, max 10, per_section_max 1} and three sections
\* of 12 bullets and no open question, enforce_slide_budget leaves a section
\* with at most 6 bullets and an estimate of at most 10
C4_ScenarioTrimmed ==
  (/\ pc = "enforced"
   /\ config.slide_budget = SlideBudget(8, 10, 1)
   /\ Len(before) = 3
   /\ \A i \in 1..3 : /\ Len(before[i].bullets) = 12
                      /\ before[i].open_questions = <<>>)
  => /\ \E i \in Sections : Len(sections[i].bullets) <= 6
     /\ _check_slide_budget(sections, config).estimated_slides <= 10

Grown(section) ==
  [section EXCEPT !.bullets = @ \o [j \in 1..BulletsPerSlide |->
      GroundedBullet(<<"Extra", ToString(j)>>, <<"E1">>)]]

GrowthFits(section) ==
  CeilDiv(Items(Grown(section)), BulletsPerSlide) <= get_per_section_max(config)

OverMaximum(ss) ==
  _check_slide_budget(ss, config).estimated_slides > get_max_slides(config)

HasLongSection(ss) ==
  \E i \in 1..Len(ss) :
    Len(ss[i].bullets) > get_per_section_max(config) * BulletsPerSlide

\* C7: when the estimate exceeds the maximum and some section has more than
\* per_section_max x 6 bullets, enforce_slide_budget strictly reduces the
\* total number of bullets
C7_TrimReducesBullets ==
  (pc = "enforced" /\ OverMaximum(before) /\ HasLongSection(before))
    => TotalBullets(sections) < TotalBullets(before)

\* an over-budget list with a long section was trimmed
C7_Witness ==
  /\ pc = "enforced"
  /\ OverMaximum(before)
  /\ HasLongSection(before)
  /\ get_per_section_max(config) >= 1
  /\ TotalBullets(sections) < TotalBullets(before)

(***************************************************************************)
(* Properties of the extractor                                             *)
(***************************************************************************)
IsH1(raw) == StartsWith(Strip(raw), <<"#", " ">>)

IsBullet(raw) == Strip(raw) # <<>> /\ Block(Strip(raw)).block_type = "bullet"

TextOf(raw) == Block(Strip(raw)).text

InputLines == Split(content)

\* the raw text is one H1 line followed by bullet lines with pairwise
\* different texts of at least 5 characters
HeadingThenBullets ==
  /\ Len(InputLines) >= 2
  /\ IsH1(InputLines[1])
  /\ \A i \in 2..Len(InputLines) :
       /\ IsBullet(InputLines[i])
       /\ Len(TextOf(InputLines[i])) >= MinTextLen
       /\ \A j \in 2..Len(InputLines) :
            i # j => TextOf(InputLines[i]) # TextOf(InputLines[j])

IdsAndPathsOfScenario ==
  \A k \in 1..Len(collection) :
    /\ collection[k].id.prefix = "EVID-"
    /\ collection[k].block_path = <<TextOf(InputLines[1])>>

\* C8 as claimed: one H1 line and n bullet lines with pairwise different
\* texts of at least 5 characters give exactly n items, all ids starting
\* with EVID- and all heading paths equal to [title]
C8_ExactlyNItems ==
  (xpc = "returned" /\ HeadingThenBullets) =>
    /\ Len(collection) = Len(InputLines) - 1
    /\ IdsAndPathsOfScenario

\* the texts that become items: the title, if it has 5 characters or more,
\* and the bullet texts, told apart by their first 100 characters
HashedQuotes ==
  {Take(TextOf(InputLines[i]), QuoteCut) : i \in 2..Len(InputLines)}
  \cup (IF Len(TextOf(InputLines[1])) >= MinTextLen
        THEN {Take(TextOf(InputLines[1]), QuoteCut)} ELSE {})

\* C8 amended: the collection holds one item per distinct first-100-
\* character prefix among the title (if of 5 characters or more) and the
\* bullet texts, all ids start with EVID-, all heading paths are [title]
C8_OneItemPerHashedQuote ==
  (xpc = "returned" /\ HeadingThenBullets) =>
    /\ Len(collection) = Cardinality(HashedQuotes)
    /\ IdsAndPathsOfScenario

\* a title of 5 characters and two different bullets: three items
C8_Witness ==
  /\ xpc = "returned"
  /\ HeadingThenBullets
  /\ Len(InputLines) = 3
  /\ Len(collection) = 3

HeadingLevel(raw) ==
  IF StartsWith(Strip(raw), <<"#", " ">>) THEN 1
  ELSE IF StartsWith(Strip(raw), <<"#", "#", " ">>) THEN 2
  ELSE IF StartsWith(Strip(raw), <<"#", "#", "#", " ">>) THEN 3
  ELSE 0

Processed == IF xpc \in {"loop", "returned"} THEN idx - 1 ELSE 0

\* the title of the most recent processed heading of level k, <<>> if none
MostRecentTitle(k) ==
  LET seen == {i \in 1..Processed : HeadingLevel(lines[i]) = k}
  IN  IF seen = {} THEN <<>>
      ELSE TextOf(lines[CHOOSE i \in seen : \A j \in seen : j <= i])

\* an H2 comes under an H1 and an H3 under an H2 of the current H1
RECURSIVE ProperlyNested(_, _)
ProperlyNested(i, depth) ==
  IF i > Processed THEN TRUE
  ELSE LET level == HeadingLevel(lines[i])
       IN  IF level = 0 THEN ProperlyNested(i + 1, depth)
           ELSE level <= depth + 1 /\ ProperlyNested(i + 1, level)

\* the item of the line processed last carries the current path
LastItemHasCurrentPath ==
  (/\ Processed >= 1
   /\ Strip(lines[Processed]) # <<>>
   /\ Len(TextOf(lines[Processed])) >= MinTextLen)
  => \E k \in 1..Len(collection) :
       /\ collection[k].extracted_at = clock - 1
       /\ collection[k].block_path = current_path

SameItems(c1, c2) ==
  /\ {c1[i].id : i \in 1..Len(c1)} = {c2[j].id : j \in 1..Len(c2)}
  /\ \A i \in 1..Len(c1) : \A j \in 1..Len(c2) :
       c1[i].id = c2[j].id =>
         /\ c1[i].quote = c2[j].quote
         /\ c1[i].block_type = c2[j].block_type
         /\ c1[i].block_path = c2[j].block_path

\* C10: two extractions of the same content and page_id give the same ids
\* and for each id the same quote, block type and heading path; the items
\* of the same (page_id, quote), created at different times, have one id
C10_DeterministicIds ==
  Len(results) = 2 => SameItems(results[1], results[2])

\* both runs returned items, created at different times
C10_Witness ==
  /\ Len(results) = 2
  /\ Len(results[1]) >= 2
  /\ \E i \in 1..Len(results[1]) : \E j \in 1..Len(results[2]) :
       /\ results[1][i].id = results[2][j].id
       /\ results[1][i].extracted_at # results[2][j].extracted_at

(***************************************************************************)
(* Properties of EvidenceCollection                                        *)
(***************************************************************************)
KeysMatchIds(d) == \A i \in 1..Len(d) : d[i].value.id = d[i].key

\* a key of both collections whose two items differ
Collisions ==
  {k \in DictKeys(prior.target) \cap DictKeys(prior.other) :
     DictGet(prior.target, k) # DictGet(prior.other, k)}

\* C11: after any sequence of add and merge on collections that start empty,
\* and in the sub-collection the controller builds for a slot, every key k
\* of items has items[k].id = k; after target.merge(other) the keys of
\* target are the union of both key sets, an id of other holds the item of
\* other and any other id keeps its item
C11_KeysMatchIds ==
  /\ KeysMatchIds(target)
  /\ KeysMatchIds(other)
  /\ KeysMatchIds(relevant)
  /\ op = "merge" =>
       /\ DictKeys(target) = DictKeys(prior.target) \cup DictKeys(prior.other)
       /\ \A k \in DictKeys(target) :
            DictGet(target, k) = IF k \in DictKeys(prior.other)
                                 THEN DictGet(prior.other, k)
                                 ELSE DictGet(prior.target, k)

\* a merge where both collections held a different item under one id, and
\* the merged collection also gained a key
C11_Witness ==
  /\ op = "merge"
  /\ Collisions # {}
  /\ \E k \in Collisions : DictGet(target, k) = DictGet(prior.other, k)
  /\ Len(target) >= 1

(***************************************************************************)
(* Properties of validate_grounded_report                                  *)
(***************************************************************************)
\* grounded as the specification defines it: the id list is not empty and
\* every id resolves in the collection
GroundedInCollection(bullet) ==
  /\ bullet.evidence_ids # <<>>
  /\ \A k \in 1..Len(bullet.evidence_ids) :
       Resolves(evidence, bullet.evidence_ids[k])

\* C12: validate_grounded_report reports valid = false and lists the bullet
\* whenever some bullet has an empty id list or an id that does not resolve
\* in the evidence collection
C12_ValidationCatchesUngrounded ==
  pc = "validated" =>
    \A i \in Sections : \A j \in 1..Len(sections[i].bullets) :
      ~ GroundedInCollection(sections[i].bullets[j]) =>
        /\ validation.valid = FALSE
        /\ [section |-> sections[i].name,
            bullet |-> sections[i].bullets[j].text]
             \in Range(validation.ungrounded_bullets)

(***************************************************************************)
(* Properties of the terminology mapping                                   *)
(***************************************************************************)
\* the bullets of a section that the revision pass keeps
Surviving(section) ==
  SelectSeq(section.bullets, LAMBDA b : valid_ids(evidence, b) # <<>>)

\* C13: after revise_sections with a non-empty terminology map, the name,
\* the description and the text of every surviving bullet of every section
\* are apply_terminology of their values before the pass
C13_RevisionAppliesTerminology ==
  (pc = "revised" /\ config.terminology_map # <<>>) =>
    \A i \in Sections :
      /\ sections[i].name
           = apply_terminology(config.terminology_map, before[i].name)
      /\ sections[i].description
           = apply_terminology(config.terminology_map, before[i].description)
      /\ Len(sections[i].bullets) = Len(Surviving(before[i]))
      /\ \A j \in 1..Len(sections[i].bullets) :
           sections[i].bullets[j].text
             = apply_terminology(config.terminology_map,
                                 Surviving(before[i])[j].text)

\* the words of the old terms and of the new terms of a mapping
OldWords(m) == UNION {Range(m[i][1]) : i \in 1..Len(m)}

NewWords(m) == UNION {Range(m[i][2]) : i \in 1..Len(m)}

\* old and new terms are distinct word sets, as the words are written
DistinctWordSets(m) == OldWords(m) \cap NewWords(m) = {}

\* no word of a new term is, ignoring case, a word of an old term
DistinctIgnoringCase(m) ==
  {LowerWord(w) : w \in OldWords(m)} \cap {LowerWord(w) : w \in NewWords(m)} = {}

\* the text was mapped twice: term_history holds the text before the first
\* and before the second application
AppliedTwice == Len(term_history) = 2

Returned == pc = "returned" /\ request.kind = "smart_discover"

\* C15: smart_discover returns success = false only when neither a Notion
\* URL nor raw content is given; a failed Notion read and a failed or
\* unparseable LLM call do not make it return success = false
C15_FailsOnlyWithoutInput ==
  (Returned /\ result.success = FALSE) =>
    (~ request.notion_url /\ ~ request.raw_content)

(***************************************************************************)
(* Properties of analyze_with_evidence                                     *)
(***************************************************************************)
\* analyze_with_evidence has just returned its sections
Analyzed == pc = "sections" /\ origin \in {"llm", "fallback"}

\* the deterministic fallback: Key Findings with one bullet per evidence
\* item, the first 10 at most, each citing its own id, left out when there
\* is no evidence; then Recommendations with one open question
IsFallback(ss) ==
  LET n == Min(Len(evidence), 10)
      last == ss[Len(ss)]
  IN  /\ Len(ss) = (IF n > 0 THEN 2 ELSE 1)
      /\ n > 0 =>
           /\ ss[1].name = <<"Key", "Findings">>
           /\ ss[1].open_questions = <<>>
           /\ Len(ss[1].bullets) = n
           /\ \A j \in 1..n :
                ss[1].bullets[j] = GroundedBullet(evidence[j].text,
                                                  <<evidence[j].id>>)
      /\ last.name = <<"Recommendations">>
      /\ last.bullets = <<>>
      /\ Len(last.open_questions) = 1

\* the response of the LLM call was not the expected structure
NotExpectedStructure == llm_kind # "json"

\* placeholders only: one section per required concept, no bullet, the
\* open question of the placeholder
OnlyPlaceholders(ss) ==
  /\ Len(ss) = Len(config.must_include)
  /\ \A i \in 1..Len(ss) :
       /\ ss[i].name = apply_terminology(config.terminology_map,
                                         config.must_include[i])
       /\ ss[i].bullets = <<>>
       /\ ss[i].open_questions = <<NoEvidenceFound(config.must_include[i])>>

\* C16: for every outcome of the LLM call analyze_with_evidence returns
\* sections, and whenever the response is not the expected structure (no
\* JSON object, malformed JSON, JSON of the wrong shape, an exception) the
\* sections are exactly the deterministic fallback
C16_FallbackOnEveryFailure ==
  (Analyzed /\ NotExpectedStructure) => IsFallback(sections)

\* C16, amended: the fallback is returned when no JSON object is found,
\* the JSON is malformed, the conversion of the object raises or the call
\* raises; a JSON object without "sections" is read as an empty list and
\* gives the placeholders of the required sections
C16_FallbackOrPlaceholders ==
  Analyzed =>
    /\ llm_kind \in {"no_json", "bad_json", "exception", "json_wrong_types"}
         => IsFallback(sections)
    /\ llm_kind = "json_no_sections" => OnlyPlaceholders(sections)

\* a malformed response on a document of more than 10 evidence items
C16_Witness ==
  /\ Analyzed
  /\ llm_kind = "bad_json"
  /\ Len(evidence) > 10
  /\ Len(sections) = 2
  /\ Len(sections[1].bullets) = 10

\* C17: whenever smart_discover returns success = true, markdown_path and
\* powerpoint_path are both set, also when the slide writer failed
C17_BothArtifacts ==
  (Returned /\ result.success) =>
    (result.markdown_path # None /\ result.powerpoint_path # None)

\* C17, amended: every run that got its content returns success = true
\* with markdown_path set; powerpoint_path is the path the slide writer
\* returned, which is None exactly when the writer failed
C17_MarkdownAlwaysSlidesIfWritten ==
  Returned =>
    /\ result.success <=> result.error = None
    /\ result.success =>
         /\ result.markdown_path # None
         /\ result.powerpoint_path = pptx.pptx_path
         /\ (pptx.pptx_path = None) <=> (pptx.slide_count = 0)

\* a successful run whose slide writer failed
C17_Witness ==
  /\ Returned
  /\ result.success
  /\ result.markdown_path # None
  /\ result.powerpoint_path = None
  /\ pptx.slides = <<>>

\* the slides of a kind that the deck holds for section i
SlidesOf(kind, i) ==
  {k \in 1..Len(pptx.slides) : pptx.slides[k] = Slide(kind, i)}

\* the deck was written for sections whose estimate exceeds the maximum
OversizedDeck ==
  /\ Returned
  /\ pptx.pptx_path # None
  /\ _check_slide_budget(sections, config).estimated_slides
       > get_max_slides(config)

\* C18: when the estimate still exceeds the maximum after trimming, the
\* deck holds the divider and the content slides of every section of the
\* final list, so that its slide count exceeds the maximum
C18_OversizedDeckKeepsEverySection ==
  OversizedDeck =>
    /\ \A i \in Sections :
         /\ SlidesOf("divider", i) # {}
         /\ Items(sections[i]) > 0 => SlidesOf("content", i) # {}
    /\ pptx.slide_count > get_max_slides(config)

(***************************************************************************)
(* Properties of enforce_slide_budget                                      *)
(***************************************************************************)
\* enforce_slide_budget has returned: before holds its argument
Enforced == pc = "enforced"

EstimateBefore == _check_slide_budget(before, config).estimated_slides

BelowMinimum == EstimateBefore < get_min_slides(config)

\* C19: whenever the estimate is below the minimum, enforce_slide_budget
\* returns every section with its bullets and open questions unchanged,
\* for every config, also one whose minimum exceeds its maximum
C19_BelowMinimumUnchanged ==
  (Enforced /\ BelowMinimum) => sections = before

\* C19, amended: the sections are unchanged when the estimate is below the
\* minimum and not above the maximum; an estimate below the minimum and
\* above the maximum (a config with min > max) is trimmed like any
\* estimate above the maximum
C19_BelowMinimumWithinMaximumUnchanged ==
  (Enforced /\ BelowMinimum /\ EstimateBefore <= get_max_slides(config))
    => sections = before

\* an estimate below the minimum for sections with more bullets than the
\* cap of a section, left as they were
C19_Witness ==
  /\ Enforced
  /\ BelowMinimum
  /\ EstimateBefore <= get_max_slides(config)
  /\ \E i \in 1..Len(before) :
       Len(before[i].bullets) > get_per_section_max(config) * BulletsPerSlide
  /\ sections = before

\* the bullet list of section i was cut by the pass
Trimmed(i) == Len(sections[i].bullets) < Len(before[i].bullets)

\* C20: enforce_slide_budget returns the same sections in the same order
\* with everything but the bullet lists unchanged; each bullet list is a
\* prefix of the list before, of unchanged length or of length exactly
\* per_section_max x 6, and no dropped bullet becomes an open question
C20_OnlyBulletListsShrink ==
  Enforced =>
    /\ Len(sections) = Len(before)
    /\ \A i \in Sections :
         /\ [sections[i] EXCEPT !.bullets = <<>>]
              = [before[i] EXCEPT !.bullets = <<>>]
         /\ sections[i].bullets
              = Take(before[i].bullets, Len(sections[i].bullets))
         /\ \/ Len(sections[i].bullets) = Len(before[i].bullets)
            \/ Len(sections[i].bullets) = get_per_section_max(config) * 6

\* a pass that cut one section and left another one, and a section with an
\* open question, as they were
C20_Witness ==
  /\ Enforced
  /\ \E i, j \in Sections :
       /\ Trimmed(i)
       /\ Len(sections[i].bullets) > 0
       /\ ~ Trimmed(j)
       /\ sections[j].bullets # <<>>
  /\ \E i \in Sections : sections[i].open_questions # <<>>

(***************************************************************************)
(* Properties of the config parser                                         *)
(***************************************************************************)
\* the page has a second-level heading that opens the part
HasPart(key) ==
  \E i \in 1..Len(config_lines) :
    /\ config_lines[i].kind = "h2"
    /\ _detect_section(config_lines[i].words) = key

\* the parts of the page for which the parser returned its default
DefaultedParts ==
  {key \in {"required_sections", "terminology", "slide_budget",
            "template_slots"} : ~ HasPart(key)}
  \cup (IF ExtractedName(config_lines, config_title) = <<>>
        THEN {"name"} ELSE {})

\* the warning that tells of the default of a part
WarningOf(key) ==
  CASE key = "name" -> NameWarning
    [] key = "required_sections" -> RequiredSectionsWarning
    [] key = "terminology" -> "No Terminology found in config page"
    [] key = "slide_budget" -> "No Slide Budget found in config page"
    [] key = "template_slots" -> "No Template Slots found in config page"

\* C21: for every absent part of the config page (customer name, required
\* sections, terminology, slide budget, template slots) the warnings hold a
\* warning for the default that was used, and the warnings are empty only
\* if no default was used
C21_EveryDefaultWarned ==
  kpc = "done" =>
    /\ \A key \in DefaultedParts : WarningOf(key) \in Range(warnings)
    /\ warnings = <<>> => DefaultedParts = {}

(***************************************************************************)
(* Properties of EvidenceCollection.search                                 *)
(***************************************************************************)
\* keyword is a case-insensitive substring of the quote or of the text
MatchesField(item, keyword) ==
  \/ ContainsText(Lower(item.quote), Lower(keyword))
  \/ ContainsText(Lower(item.text), Lower(keyword))

\* the items of the collection that some keyword matches in one field
MatchingItems(items, keywords) ==
  SelectSeq(DictValues(items),
    LAMBDA item : \E k \in 1..Len(keywords) : MatchesField(item, keywords[k]))

\* C22: search(keywords) returns exactly the items for which at least one
\* keyword is a case-insensitive substring of the item's quote or of its
\* normalized text, and no other item.
C22_SearchMatchesQuoteOrText ==
  op = "search" => found.items = MatchingItems(target, found.keywords)

(***************************************************************************)
(* Properties of has_sufficient_evidence                                   *)
(***************************************************************************)
\* a section with open questions is flagged as lacking evidence
QuestionsClearFlag ==
  \A i \in Sections :
    sections[i].open_questions # <<>> => ~ sections[i].has_sufficient_evidence

\* a step keeps every section that is flagged as lacking evidence flagged
FlagStaysCleared ==
  \A i \in Sections :
    ~ sections[i].has_sufficient_evidence =>
      /\ i <= Len(sections')
      /\ ~ sections'[i].has_sufficient_evidence

\* C23: for sections built with add_bullet and add_open_question and then
\* revised and trimmed, a section whose open_questions list is non-empty has
\* has_sufficient_evidence = false, and once the flag is false no later step
\* makes it true again.
C23_QuestionsClearFlagForGood ==
  [] QuestionsClearFlag /\ [][FlagStaysCleared]_vars

\* a revised and trimmed section holds bullets and open questions
C23_Witness ==
  /\ pc = "enforced"
  /\ revised
  /\ \E i \in Sections :
       /\ sections[i].open_questions # <<>>
       /\ sections[i].bullets # <<>>
       /\ ~ sections[i].has_sufficient_evidence

(***************************************************************************)
(* Properties of the orchestrator                                          *)
(***************************************************************************)
IndexInRange ==
  /\ 0 <= state.current_section_index
  /\ state.current_section_index <= Len(state.template_sections)

\* C24 as stated: over any sequence of start, approve, skip, feedback,
\* status and export commands on one ReportState, current_section_index
\* never decreases and stays between 0 and the number of template sections.
C24_IndexNeverDecreases ==
  /\ IndexInRange
  /\ state.current_section_index >= state_before.current_section_index

\* C24: current_section_index stays between 0 and the number of template
\* sections and never decreases under approve, skip, feedback, status and
\* export; a start command sets it to 0.
C24_IndexDecreasesOnlyOnStart ==
  /\ IndexInRange
  /\ command = "feedback" =>
       state.current_section_index >= state_before.current_section_index
  /\ command = "start" => state.current_section_index = 0

\* a second start on a state whose index had advanced
C24_Witness ==
  /\ command = "start"
  /\ state_before.current_section_index > 0
  /\ state.current_section_index = 0

\* the skip, status and export commands of the orchestrator instructions
OtherCommands ==
  { <<"s", "k", "i", "p">>,
    <<"s", "t", "a", "t", "u", "s">>,
    <<"e", "x", "p", "o", "r", "t">> }

\* the message is one of the approval replies
ApprovalReply(message) ==
  \E k \in 1..Len(approve_keywords) :
    Strip(LowerMessage(message)) = approve_keywords[k]

\* a message that is neither an approval reply nor a command
IsCorrection(message) ==
  /\ ~ ApprovalReply(message)
  /\ Strip(LowerMessage(message)) \notin OtherCommands

\* C25: a user message that is a correction (not an approve, skip, status
\* or export command) leaves the current section's status not approved,
\* leaves current_section_index unchanged, adds no changelog entry, and
\* appends the message to the section's feedback_history.
C25_CorrectionKeepsSection ==
  ( /\ command = "feedback"
    /\ IsCorrection(user_message)
    /\ get_current_section_title(state_before) # None ) =>
    LET title == get_current_section_title(state_before)
        was == DictGet(state_before.sections, title)
        now == DictGet(state.sections, title)
    IN  /\ now.status # "approved"
        /\ state.current_section_index = state_before.current_section_index
        /\ state.changelog = state_before.changelog
        /\ now.feedback_history = Append(was.feedback_history, user_message)

(***************************************************************************)
(* Properties of the two passes together                                   *)
(***************************************************************************)
\* C26: after revise_sections followed by enforce_slide_budget every
\* section holds at least one bullet or at least one open question, for
\* every slide budget the code accepts: trimming never empties a section.
C26_NoSectionLeftEmpty ==
  (pc = "enforced" /\ revised) =>
    \A i \in Sections :
      sections[i].bullets # <<>> \/ sections[i].open_questions # <<>>

(***************************************************************************)
(* Properties of the trimming loop                                         *)
(***************************************************************************)
\* the order in which the pass examined the sections
ExaminedOrder == SortedByBullets(before, 1..Len(before))

\* the section had more bullets than per_section_max x 6
Exceeded(j) ==
  Len(before[j].bullets) > get_per_section_max(config) * BulletsPerSlide

\* the slides-to-remove counter when the k-th section of the order is
\* examined: estimate - max, less floor(removed / 6) per section cut so far
RECURSIVE CounterAt(_)
CounterAt(k) ==
  IF k = 1 THEN EstimateBefore - get_max_slides(config)
  ELSE LET j == ExaminedOrder[k - 1]
           removed == Len(before[j].bullets)
                        - get_per_section_max(config) * BulletsPerSlide
       IN  CounterAt(k - 1)
             - (IF Exceeded(j) THEN removed \div BulletsPerSlide ELSE 0)

\* C27: enforce_slide_budget examines the sections in descending order of
\* bullet count and stops once the slides-to-remove counter is no longer
\* positive: a section is truncated only if every section with strictly
\* more bullets that exceeded per_section_max x 6 was truncated too, and no
\* section examined once the counter is zero or below is changed.
C27_LongestFirstUntilSatisfied ==
  Enforced =>
    /\ \A i, j \in Sections :
         ( /\ Trimmed(i)
           /\ Len(before[j].bullets) > Len(before[i].bullets)
           /\ Exceeded(j) ) => Trimmed(j)
    /\ \A k \in 1..Len(ExaminedOrder) :
         (\E l \in 1..k : CounterAt(l) <= 0) =>
           sections[ExaminedOrder[k]] = before[ExaminedOrder[k]]

\* the pass cut the longest section and stopped before another section
\* that exceeded the cap
C27_Witness ==
  /\ Enforced
  /\ \E i, j \in Sections :
       /\ Trimmed(i)
       /\ Exceeded(j)
       /\ ~ Trimmed(j)
       /\ Len(before[j].bullets) < Len(before[i].bullets)

(***************************************************************************)
(* Properties of the estimate under enforcement                            *)
(***************************************************************************)
EstimateAfter == _check_slide_budget(sections, config).estimated_slides

CitedIds(section) ==
  UNION {Range(section.bullets[j].evidence_ids) :
           j \in 1..Len(section.bullets)}

\* C29: after the revision pass and the slide-budget pass each section's
\* aggregated evidence_ids list contains exactly the ids cited by the
\* bullets that remain in the section.
C29_AggregatedIdsAreCitedIds ==
  (Enforced /\ revised) =>
    \A i \in Sections : Range(sections[i].evidence_ids) = CitedIds(sections[i])

(***************************************************************************)
(* Properties of the deck against the estimate                             *)
(***************************************************************************)
\* the deck was written for revised sections whose estimate is within the
\* maximum, under a per_section_max of at least 1
DeckWithinBudget ==
  /\ Returned
  /\ revised
  /\ pptx.pptx_path # None
  /\ get_per_section_max(config) >= 1
  /\ \A i \in Sections : Items(sections[i]) > 0
  /\ _check_slide_budget(sections, config).estimated_slides
       <= get_max_slides(config)

\* C30: for revised sections (each with at least one bullet or open
\* question) and per_section_max >= 1, if the estimate is at most the
\* configured maximum, the deck that _generate_powerpoint writes has as
\* many slides as the estimate: title, agenda, and per section, in section
\* order, one divider and min(per_section_max, ceil(items / 6)) content
\* slides.
C30_DeckMatchesEstimate ==
  DeckWithinBudget =>
    /\ pptx.slide_count
         = _check_slide_budget(sections, config).estimated_slides
    /\ pptx.slide_count = Len(pptx.slides)
    /\ \A i \in Sections :
         /\ Cardinality(SlidesOf("divider", i)) = 1
         /\ Cardinality(SlidesOf("content", i))
              = Min(get_per_section_max(config),
                    CeilDiv(Items(sections[i]), BulletsPerSlide))
         /\ \A k \in SlidesOf("content", i) :
              \A d \in SlidesOf("divider", i) : d < k
    /\ \A k, l \in 3..Len(pptx.slides) :
         k < l => pptx.slides[k].section <= pptx.slides[l].section

\* a deck of several sections, one of them capped at per_section_max
C30_Witness ==
  /\ DeckWithinBudget
  /\ Len(sections) >= 2
  /\ \E i \in Sections :
       CeilDiv(Items(sections[i]), BulletsPerSlide)
         > get_per_section_max(config)

====
